---- MODULE Spec2Model ----
(***************************************************************************)
(* Model of the resume text pipeline of server/src/services/               *)
(* analysis_service.py: PDF text extraction with OCR fallback, bullet      *)
(* normalisation, section detection, keyword filtering and the resume      *)
(* reconstruction step.                                                    *)
(*                                                                         *)
(* A text is a sequence of characters; a character is a one-character      *)
(* string, and a non-ASCII character is written by its code point          *)
(* ("U+2022" is the canonical bullet).                                     *)
(***************************************************************************)
EXTENDS Integers, Sequences, FiniteSets, TLC

\* ------------------------------------------------------------------------
\* Characters and the Python string primitives the code relies on
\* ------------------------------------------------------------------------

UpperSeq == <<"A", "B", "C", "D", "E", "F", "G", "H", "I", "J", "K", "L", "M", "N", "O", "P", "Q", "R", "S", "T", "U", "V", "W", "X", "Y", "Z">>

LowerSeq == <<"a", "b", "c", "d", "e", "f", "g", "h", "i", "j", "k", "l", "m", "n", "o", "p", "q", "r", "s", "t", "u", "v", "w", "x", "y", "z">>

UpperChars == {UpperSeq[i] : i \in 1..Len(UpperSeq)}

LowerChars == {LowerSeq[i] : i \in 1..Len(LowerSeq)}

DigitChars == {"0", "1", "2", "3", "4", "5", "6", "7", "8", "9"}

\* \s of the re module and the characters str.strip() removes
SpaceChars == {" ", "\t", "\n", "\r"}

\* \w of the re module
WordChars == UpperChars \cup LowerChars \cup DigitChars \cup {"_"}

NL == "\n"

BULLET == "U+2022"

\* str.lower() and str.upper(), one character at a time
LowerChar(c) ==
    IF c \in UpperChars
    THEN LowerSeq[CHOOSE i \in 1..Len(UpperSeq) : UpperSeq[i] = c]
    ELSE c

UpperChar(c) ==
    IF c \in LowerChars
    THEN UpperSeq[CHOOSE i \in 1..Len(LowerSeq) : LowerSeq[i] = c]
    ELSE c

lower(s) == [i \in 1..Len(s) |-> LowerChar(s[i])]

upper(s) == [i \in 1..Len(s) |-> UpperChar(s[i])]

\* s[a:b] with 1-based inclusive bounds, empty when a > b
Slice(s, a, b) == IF a > b THEN <<>> ELSE SubSeq(s, a, b)

\* the least element of a non-empty set of integers
Min(S) == CHOOSE x \in S : \A y \in S : x <= y

\* length of the run of characters of class C in s that starts at position p
RunOf(s, C, p) ==
    IF p < 1 \/ p > Len(s) THEN 0
    ELSE LET stops == {q \in p..Len(s) : s[q] \notin C}
         IN  IF stops = {} THEN Len(s) - p + 1 ELSE Min(stops) - p

\* number of whitespace characters of s from position p on, up to the first
\* character that is not whitespace
SpaceRun(s, p) == RunOf(s, SpaceChars, p)

\* number of whitespace characters that end s at position p
TrailRun(s, p) ==
    IF p < 1 \/ p > Len(s) THEN 0
    ELSE LET stops == {q \in 1..p : s[q] \notin SpaceChars}
         IN  IF stops = {} THEN p ELSE Min({p - q : q \in stops})

\* str.strip()
strip(s) ==
    LET a == SpaceRun(s, 1)
    IN  IF a = Len(s) THEN <<>>
        ELSE Slice(s, a + 1, Len(s) - TrailRun(s, Len(s)))

\* str.split("\n"): always at least one line
RECURSIVE split(_)
split(t) ==
    IF \A i \in 1..Len(t) : t[i] # NL
    THEN <<t>>
    ELSE LET i == CHOOSE i \in 1..Len(t) : t[i] = NL /\ \A j \in 1..(i - 1) : t[j] # NL
         IN  <<Slice(t, 1, i - 1)>> \o split(Slice(t, i + 1, Len(t)))

\* "\n".join(lines)
RECURSIVE join(_)
join(ls) ==
    IF Len(ls) = 0 THEN <<>>
    ELSE IF Len(ls) = 1 THEN ls[1]
    ELSE ls[1] \o <<NL>> \o join(Tail(ls))

\* sub occurs in s starting at position p
MatchAt(s, sub, p) ==
    /\ p >= 1
    /\ p + Len(sub) - 1 <= Len(s)
    /\ \A k \in 1..Len(sub) : s[p + k - 1] = sub[k]

\* the Python test "sub in s"
Contains(s, sub) == \E p \in 1..(Len(s) + 1) : MatchAt(s, sub, p)

\* ------------------------------------------------------------------------
\* normalize_bullet_points, count_bullet_points
\* ------------------------------------------------------------------------

\* the ordered pattern list: the glyph class of each pattern, and whether the
\* pattern ends with the lookahead (?=[A-Z])
bullet_patterns ==
    << [glyphs |-> {"-", "U+2013", "U+2014", "*", "U+25AA", "U+25AB", "U+25A0",
                    "U+25A1", "U+25C6", "U+25C7", "U+27A4", "U+2794", "U+2713",
                    "U+2714", ">"},
        upperNext |-> FALSE],
       [glyphs |-> {BULLET}, upperNext |-> FALSE],
       [glyphs |-> {"U+00B7"}, upperNext |-> FALSE],
       [glyphs |-> {"o"}, upperNext |-> TRUE] >>

\* re.match(pattern, line): ^(\s*)<glyph>\s+ and the optional lookahead
BulletMatches(pat, line) ==
    LET k == SpaceRun(line, 1)
        w == SpaceRun(line, k + 2)
    IN  /\ k + 1 <= Len(line)
        /\ line[k + 1] \in pat.glyphs
        /\ w >= 1
        /\ pat.upperNext =>
              (k + 1 + w + 1 <= Len(line) /\ line[k + 1 + w + 1] \in UpperChars)

\* match.end() of the pattern on the line (last consumed position)
BulletMatchEnd(line) ==
    LET k == SpaceRun(line, 1) IN k + 1 + SpaceRun(line, k + 2)

\* the loop body keeping everything after the glyph as it was typed
NormalizeLine_KeepSpacing(line) ==
    IF \E n \in 1..Len(bullet_patterns) : BulletMatches(bullet_patterns[n], line)
    THEN Slice(line, 1, SpaceRun(line, 1)) \o <<BULLET, " ">>
           \o Slice(line, SpaceRun(line, 1) + 2, Len(line))
    ELSE line

\* the body of the loop over the lines: first matching pattern wins
NormalizeLine(line) ==
    IF \E n \in 1..Len(bullet_patterns) : BulletMatches(bullet_patterns[n], line)
    THEN Slice(line, 1, SpaceRun(line, 1)) \o <<BULLET, " ">>
           \o strip(Slice(line, BulletMatchEnd(line) + 1, Len(line)))
    ELSE line

normalize_bullet_points(text) ==
    LET lines == split(text)
    IN  join([i \in 1..Len(lines) |-> NormalizeLine(lines[i])])

\* a match of ^\s*<bullet>\s+ (re.MULTILINE) starting at position p;
\* the result is the position after the match, 0 when there is none
BulletLineMatchEnd(text, p) ==
    LET k == SpaceRun(text, p)
        w == SpaceRun(text, p + k + 1)
    IN  IF /\ (p = 1 \/ text[p - 1] = NL)
           /\ p + k <= Len(text)
           /\ text[p + k] = BULLET
           /\ w >= 1
        THEN p + k + 1 + w
        ELSE 0

\* re.findall scans left to right: the leftmost match from position p on is
\* counted and the scan resumes after it
RECURSIVE CountBulletsFrom(_, _)
CountBulletsFrom(text, p) ==
    LET hits == {q \in p..Len(text) : BulletLineMatchEnd(text, q) > 0}
    IN  IF hits = {} THEN 0
        ELSE 1 + CountBulletsFrom(text, BulletLineMatchEnd(text, Min(hits)))

count_bullet_points(text) == CountBulletsFrom(text, 1)

\* ------------------------------------------------------------------------
\* clean_encoding_artifacts
\* ------------------------------------------------------------------------

\* the corrupt glyph class of lines 275-278 and 292-293
CorruptGlyphs ==
    {"U+00CF", "U+00EF", "U+012A", "U+012B", "U+00CE", "U+00EE", "U+00D8", "U+00F8"}

\* re.sub scans left to right: the text before the leftmost match is copied,
\* the match is replaced and the scan resumes after the match.

\* re.sub(r'%[glyph]', '', text) from position p on
PercentGlyphAt(t, p) == t[p] = "%" /\ p + 1 <= Len(t) /\ t[p + 1] \in CorruptGlyphs

RECURSIVE RemovePercentGlyphFrom(_, _)
RemovePercentGlyphFrom(t, p) ==
    LET hits == {q \in p..Len(t) : PercentGlyphAt(t, q)}
    IN  IF hits = {} THEN Slice(t, p, Len(t))
        ELSE Slice(t, p, Min(hits) - 1) \o RemovePercentGlyphFrom(t, Min(hits) + 2)

RemovePercentGlyph(t) == RemovePercentGlyphFrom(t, 1)

\* re.sub(r'[glyph]', '', text); the two substitutions of lines 277-278 need a
\* glyph and so never match after this one
RemoveGlyphs(t) == SelectSeq(t, LAMBDA c : c \notin CorruptGlyphs)

\* str.replace(old, new): leftmost occurrences, not overlapping
RECURSIVE ReplaceFrom(_, _, _, _)
ReplaceFrom(t, old, new, p) ==
    LET hits == {q \in p..Len(t) : MatchAt(t, old, q)}
    IN  IF hits = {} THEN Slice(t, p, Len(t))
        ELSE Slice(t, p, Min(hits) - 1) \o new
               \o ReplaceFrom(t, old, new, Min(hits) + Len(old))

replace(t, old, new) == ReplaceFrom(t, old, new, 1)

\* the five replacements of lines 281-285, in order
FixMojibake(t) ==
    LET a == replace(t, <<"U+00E2", "U+20AC", "U+00A2">>, <<BULLET>>)
        b == replace(a, <<"U+00E2", "U+20AC", "\"">>, <<"U+2013">>)
        c == replace(b, <<"U+00E2", "U+20AC", "U+2122">>, <<"'">>)
        d == replace(c, <<"U+00E2", "U+20AC", "U+0153">>, <<"\"">>)
    IN  replace(d, <<"U+00E2", "U+20AC">>, <<"\"">>)

\* re.sub(r'[ \t]+', ' ', text) from position p on
RECURSIVE CollapseBlanksFrom(_, _)
CollapseBlanksFrom(t, p) ==
    LET hits == {q \in p..Len(t) : t[q] \in {" ", "\t"}}
    IN  IF hits = {} THEN Slice(t, p, Len(t))
        ELSE Slice(t, p, Min(hits) - 1) \o <<" ">>
               \o CollapseBlanksFrom(t, Min(hits) + RunOf(t, {" ", "\t"}, Min(hits)))

CollapseBlanks(t) == CollapseBlanksFrom(t, 1)

\* a match of r' *\n+ *' at position p: a run of spaces, a run of newlines
\* and a run of spaces; the result is the position after the match, 0 when
\* there is none
LineBreakMatchEnd(t, p) ==
    LET a == RunOf(t, {" "}, p)
        n == RunOf(t, {NL}, p + a)
    IN  IF n > 0 THEN p + a + n + RunOf(t, {" "}, p + a + n) ELSE 0

\* re.sub(r' *\n+ *', '\n', text) from position p on
RECURSIVE CollapseLineBreaksFrom(_, _)
CollapseLineBreaksFrom(t, p) ==
    LET hits == {q \in p..Len(t) : LineBreakMatchEnd(t, q) > 0}
    IN  IF hits = {} THEN Slice(t, p, Len(t))
        ELSE Slice(t, p, Min(hits) - 1) \o <<NL>>
               \o CollapseLineBreaksFrom(t, LineBreakMatchEnd(t, Min(hits)))

CollapseLineBreaks(t) == CollapseLineBreaksFrom(t, 1)

\* a match of r'^\s*[bullets]\s*%[glyph]?\s*' (re.MULTILINE) at position p;
\* the result is the position after the match, 0 when there is none. The text
\* holds no glyph any more, so the optional glyph matches nothing and the
\* substitution of line 293 never matches
BulletPercentMatchEnd(t, p) ==
    LET k == SpaceRun(t, p)
        w == SpaceRun(t, p + k + 1)
        q == p + k + 1 + w
    IN  IF /\ (p = 1 \/ t[p - 1] = NL)
           /\ p + k <= Len(t)
           /\ t[p + k] \in {BULLET, "U+25CF"}
           /\ q <= Len(t)
           /\ t[q] = "%"
        THEN q + 1 + SpaceRun(t, q + 1)
        ELSE 0

\* the substitution of line 292 from position p on
RECURSIVE FixBulletPercentFrom(_, _)
FixBulletPercentFrom(t, p) ==
    LET hits == {q \in p..Len(t) : BulletPercentMatchEnd(t, q) > 0}
    IN  IF hits = {} THEN Slice(t, p, Len(t))
        ELSE Slice(t, p, Min(hits) - 1) \o <<BULLET, " ">>
               \o FixBulletPercentFrom(t, BulletPercentMatchEnd(t, Min(hits)))

\* a match of first + r'\s+' + second at position p; the result is the position
\* after the match, 0 when there is none
SplitHeaderMatchEnd(t, first, second, p) ==
    LET w == SpaceRun(t, p + Len(first))
    IN  IF /\ MatchAt(t, first, p)
           /\ w >= 1
           /\ MatchAt(t, second, p + Len(first) + w)
        THEN p + Len(first) + w + Len(second)
        ELSE 0

\* re.sub(first + r'\s+' + second, first + ' ' + second, text) from p on
RECURSIVE GlueHeaderFrom(_, _, _, _)
GlueHeaderFrom(t, first, second, p) ==
    LET hits == {q \in p..Len(t) : SplitHeaderMatchEnd(t, first, second, q) > 0}
    IN  IF hits = {} THEN Slice(t, p, Len(t))
        ELSE Slice(t, p, Min(hits) - 1) \o first \o <<" ">> \o second
               \o GlueHeaderFrom(t, first, second,
                                 SplitHeaderMatchEnd(t, first, second, Min(hits)))

GlueHeader(t, first, second) == GlueHeaderFrom(t, first, second, 1)

\* re.sub('([^\n])' + pat, '\\1' + sep + pat, text) from position p on: a
\* character that is not a newline followed by pat gets sep inserted between
\* them
RECURSIVE BreakBeforeFrom(_, _, _, _)
BreakBeforeFrom(t, pat, sep, p) ==
    LET hits == {q \in p..Len(t) : t[q] # NL /\ MatchAt(t, pat, q + 1)}
    IN  IF hits = {} THEN Slice(t, p, Len(t))
        ELSE Slice(t, p, Min(hits)) \o sep \o pat
               \o BreakBeforeFrom(t, pat, sep, Min(hits) + 1 + Len(pat))

BreakBefore(t, pat, sep) == BreakBeforeFrom(t, pat, sep, 1)

W_PROFESSIONAL == <<"P", "R", "O", "F", "E", "S", "S", "I", "O", "N", "A", "L">>

W_EXPERIENCES == <<"E", "X", "P", "E", "R", "I", "E", "N", "C", "E", "S">>

W_TECHNICAL == <<"T", "E", "C", "H", "N", "I", "C", "A", "L">>

W_PROJECTS == <<"P", "R", "O", "J", "E", "C", "T", "S">>

\* the section_headers list of lines 300-301, in order
section_headers ==
    << <<"E", "D", "U", "C", "A", "T", "I", "O", "N">>,
       <<"T", "E", "C", "H", "N", "I", "C", "A", "L", " ", "S", "K", "I", "L", "L", "S">>,
       <<"P", "R", "O", "F", "E", "S", "S", "I", "O", "N", "A", "L", " ", "E", "X", "P", "E", "R", "I", "E", "N", "C", "E", "S">>,
       <<"T", "E", "C", "H", "N", "I", "C", "A", "L", " ", "P", "R", "O", "J", "E", "C", "T", "S">>,
       <<"P", "R", "O", "J", "E", "C", "T", "S">>,
       <<"L", "E", "A", "D", "E", "R", "S", "H", "I", "P">>,
       <<"C", "E", "R", "T", "I", "F", "I", "C", "A", "T", "I", "O", "N", "S">> >>

\* the loop of lines 303-304 from the n-th header on
RECURSIVE BreakBeforeHeaders(_, _)
BreakBeforeHeaders(t, n) ==
    IF n > Len(section_headers) THEN t
    ELSE BreakBeforeHeaders(BreakBefore(t, section_headers[n], <<NL, NL>>), n + 1)

clean_encoding_artifacts(text) ==
    IF Len(text) = 0 THEN text
    ELSE LET t1 == RemoveGlyphs(RemovePercentGlyph(text))
             t2 == FixMojibake(t1)
             t3 == CollapseLineBreaks(CollapseBlanks(t2))
             t4 == FixBulletPercentFrom(t3, 1)
             t5 == GlueHeader(GlueHeader(t4, W_PROFESSIONAL, W_EXPERIENCES),
                              W_TECHNICAL, W_PROJECTS)
             t6 == BreakBeforeHeaders(t5, 1)
             t7 == BreakBefore(BreakBefore(t6, <<BULLET>>, <<NL>>), <<"U+25CF">>, <<NL>>)
         IN  strip(t7)

\* ------------------------------------------------------------------------
\* detect_resume_sections
\* ------------------------------------------------------------------------

\* the ordered (pattern, section_type) list; each pattern is an anchored
\* alternation ^(A|B|...)$, written as the set of phrases it accepts
section_patterns ==
    <<
       [phrases |-> {<<"S", "U", "M", "M", "A", "R", "Y">>,
                      <<"P", "R", "O", "F", "E", "S", "S", "I", "O", "N", "A", "L", " ", "S", "U", "M", "M", "A", "R", "Y">>,
                      <<"P", "R", "O", "F", "I", "L", "E">>,
                      <<"O", "B", "J", "E", "C", "T", "I", "V", "E">>,
                      <<"C", "A", "R", "E", "E", "R", " ", "O", "B", "J", "E", "C", "T", "I", "V", "E">>},
        type |-> "summary"],
       [phrases |-> {<<"E", "X", "P", "E", "R", "I", "E", "N", "C", "E", "S">>,
                      <<"W", "O", "R", "K", " ", "E", "X", "P", "E", "R", "I", "E", "N", "C", "E">>,
                      <<"P", "R", "O", "F", "E", "S", "S", "I", "O", "N", "A", "L", " ", "E", "X", "P", "E", "R", "I", "E", "N", "C", "E", "S">>,
                      <<"E", "M", "P", "L", "O", "Y", "M", "E", "N", "T", " ", "H", "I", "S", "T", "O", "R", "Y">>,
                      <<"W", "O", "R", "K", " ", "H", "I", "S", "T", "O", "R", "Y">>},
        type |-> "experience"],
       [phrases |-> {<<"E", "D", "U", "C", "A", "T", "I", "O", "N">>,
                      <<"A", "C", "A", "D", "E", "M", "I", "C", " ", "B", "A", "C", "K", "G", "R", "O", "U", "N", "D">>},
        type |-> "education"],
       [phrases |-> {<<"S", "K", "I", "L", "L", "S">>,
                      <<"T", "E", "C", "H", "N", "I", "C", "A", "L", " ", "S", "K", "I", "L", "L", "S">>,
                      <<"C", "O", "R", "E", " ", "C", "O", "M", "P", "E", "T", "E", "N", "C", "I", "E", "S">>,
                      <<"E", "X", "P", "E", "R", "T", "I", "S", "E">>},
        type |-> "skills"],
       [phrases |-> {<<"C", "E", "R", "T", "I", "F", "I", "C", "A", "T", "I", "O", "N", "S">>,
                      <<"C", "E", "R", "T", "I", "F", "I", "C", "A", "T", "E", "S">>,
                      <<"L", "I", "C", "E", "N", "S", "E", "S">>},
        type |-> "certifications"],
       [phrases |-> {<<"P", "R", "O", "J", "E", "C", "T", "S">>,
                      <<"K", "E", "Y", " ", "P", "R", "O", "J", "E", "C", "T", "S">>},
        type |-> "projects"] >>

\* the n-th pattern without its anchors: re.search of a header phrase
SectionRuleMatches_Unanchored(n, stripped) ==
    \E ph \in section_patterns[n].phrases : Contains(stripped, ph)

\* re.match(pattern, stripped) for the n-th pattern
SectionRuleMatches(n, stripped) == stripped \in section_patterns[n].phrases

\* the marker appended for line i (1-based) of lines, <<>> when no pattern
\* matches; the first matching pattern wins
SectionMarker(lines, i) ==
    LET stripped == upper(strip(lines[i]))
        hits == {n \in 1..Len(section_patterns) : SectionRuleMatches(n, stripped)}
    IN  IF hits = {} THEN <<>>
        ELSE LET n == CHOOSE n \in hits : \A m \in hits : n <= m
             IN  << [name |-> strip(lines[i]),
                     type |-> section_patterns[n].type,
                     lineNumber |-> i - 1] >>

RECURSIVE SectionMarkersFrom(_, _)
SectionMarkersFrom(lines, i) ==
    IF i > Len(lines) THEN <<>>
    ELSE SectionMarker(lines, i) \o SectionMarkersFrom(lines, i + 1)

detect_resume_sections(text) == SectionMarkersFrom(split(text), 1)


\* ------------------------------------------------------------------------
\* _basic_keyword_filter
\* ------------------------------------------------------------------------

\* re.search(r'\d+\+?\s*years?', s): a digit, an optional "+", optional
\* whitespace and the word "year"
SearchYears(s) ==
    \E p \in 1..Len(s) :
        /\ s[p] \in DigitChars
        /\ LET q == IF p + 1 <= Len(s) /\ s[p + 1] = "+" THEN p + 2 ELSE p + 1
           IN  MatchAt(s, <<"y", "e", "a", "r">>, q + SpaceRun(s, q))

\* re.search(word + r'\s+\w+', s): the word, whitespace and a word character
SearchWordThenWord(s, word) ==
    \E p \in 1..Len(s) :
        /\ MatchAt(s, word, p)
        /\ LET w == SpaceRun(s, p + Len(word))
           IN  /\ w >= 1
               /\ p + Len(word) + w <= Len(s)
               /\ s[p + Len(word) + w] \in WordChars

\* the non_actionable_patterns list, in order: re.search(pattern n, s)
NonActionablePatternCount == 12

SearchNonActionable(n, s) ==
    CASE n = 1 -> SearchYears(s)
      [] n = 2 -> Contains(s, <<"b", "a", "c", "h", "e", "l", "o", "r">>)
      [] n = 3 -> Contains(s, <<"m", "a", "s", "t", "e", "r">>)
      [] n = 4 -> Contains(s, <<"p", "h", "d">>) \/ Contains(s, <<"p", "h", ".", "d">>)
      [] n = 5 -> Contains(s, <<"d", "e", "g", "r", "e", "e">>)
      [] n = 6 -> Contains(s, <<"c", "l", "e", "a", "r", "a", "n", "c", "e">>)
      [] n = 7 -> Contains(s, <<"c", "e", "r", "t", "i", "f", "i", "c", "a", "t", "i", "o", "n">>)
      [] n = 8 -> Contains(s, <<"t", "r", "a", "v", "e", "l">>)
      [] n = 9 -> Contains(s, <<"a", "b", "i", "l", "i", "t", "y", " ", "t", "o">>)
      [] n = 10 -> SearchWordThenWord(s, <<"s", "t", "r", "o", "n", "g">>)
      [] n = 11 -> SearchWordThenWord(s, <<"e", "x", "c", "e", "l", "l", "e", "n", "t">>)
      [] n = 12 -> Contains(s, <<"t", "e", "a", "m", " ", "p", "l", "a", "y", "e", "r">>)

\* the inner loop without phrase.lower(): the patterns meet the phrase as typed
IsActionable_CaseSensitive(phrase) ==
    \A n \in 1..NonActionablePatternCount : ~SearchNonActionable(n, phrase)

\* the inner loop over the patterns: is_actionable after the loop
IsActionable(phrase) ==
    \A n \in 1..NonActionablePatternCount : ~SearchNonActionable(n, lower(phrase))

\* the dictionary appended for an actionable phrase
ActionableEntry(phrase) ==
    [keyword |-> phrase,
     category |-> "Skill",
     priority |-> "medium",
     suggestedIntegration |-> "Add to relevant experience bullets or skills section"]

\* the outer loop over missing_phrases
RECURSIVE BasicFilterFrom(_, _)
BasicFilterFrom(phrases, i) ==
    IF i > Len(phrases) THEN <<>>
    ELSE (IF IsActionable(phrases[i]) THEN <<ActionableEntry(phrases[i])>> ELSE <<>>)
           \o BasicFilterFrom(phrases, i + 1)

_basic_keyword_filter(missing_phrases) ==
    [actionableKeywords |-> BasicFilterFrom(missing_phrases, 1)]

\* ------------------------------------------------------------------------
\* verify_keyword_integration
\* ------------------------------------------------------------------------

\* str.split(): the maximal runs of non-whitespace characters
RECURSIVE words(_)
words(s) ==
    LET a == SpaceRun(s, 1)
    IN  IF a = Len(s) THEN <<>>
        ELSE LET n == CHOOSE n \in 1..(Len(s) - a) :
                        /\ \A k \in 1..n : s[a + k] \notin SpaceChars
                        /\ (a + n = Len(s) \/ s[a + n + 1] \in SpaceChars)
             IN  <<Slice(s, a + 1, a + n)>> \o words(Slice(s, a + n + 1, Len(s)))

\* the test of lines 868-873 for a non-empty keyword
KeywordIsIntegrated(optimized_lower, keyword) ==
    LET keyword_lower == lower(keyword)
        keyword_words == words(keyword_lower)
    IN  \/ Contains(optimized_lower, keyword_lower)
        \/ /\ Len(keyword_words) > 1
           /\ \A i \in 1..Len(keyword_words) : Contains(optimized_lower, keyword_words[i])

\* round(num / den * 100, 1) in tenths of a percent
\* round(num / den * 100, 1) in tenths of a percent: the nearest tenth, the
\* even one when num / den * 100 lies halfway between two tenths
RatePerMille(num, den) ==
    LET q == (1000 * num) \div den
        r == (1000 * num) % den
    IN  IF 2 * r > den \/ (2 * r = den /\ q % 2 = 1) THEN q + 1 ELSE q

\* the keywords of the list are strings; empty ones are skipped by the loop
verify_keyword_integration(optimized_text, keywords) ==
    LET optimized_lower == lower(optimized_text)
        integrated == SelectSeq(keywords,
            LAMBDA k : Len(k) > 0 /\ KeywordIsIntegrated(optimized_lower, k))
        missing == SelectSeq(keywords,
            LAMBDA k : Len(k) > 0 /\ ~KeywordIsIntegrated(optimized_lower, k))
    IN  [integrated |-> integrated,
         missing |-> missing,
         integrationRate |->
            RatePerMille(Len(integrated), IF Len(keywords) > 1 THEN Len(keywords) ELSE 1)]

\* ------------------------------------------------------------------------
\* _dict_to_resume_text
\*
\* A JSON value is [t |-> "str", v |-> text], [t |-> "num", v |-> digits],
\* [t |-> "null"], [t |-> "list", v |-> sequence of values] or
\* [t |-> "dict", v |-> sequence of <<key, value>>] with the keys in order.
\* ------------------------------------------------------------------------

JStr(s) == [t |-> "str", v |-> s]

JList(l) == [t |-> "list", v |-> l]

JDict(kv) == [t |-> "dict", v |-> kv]

JNull == [t |-> "null"]

\* "key in d"
HasKey(d, k) == \E i \in 1..Len(d.v) : d.v[i][1] = k

\* d[key]
Item(d, k) == d.v[CHOOSE i \in 1..Len(d.v) : d.v[i][1] = k][2]

\* d.get(key, '')
GetOr(d, k) == IF HasKey(d, k) THEN Item(d, k) ELSE JStr(<<>>)

\* bool(value)
Truthy(x) ==
    CASE x.t = "str" -> Len(x.v) > 0
      [] x.t = "num" -> x.v # <<"0">>
      [] x.t = "null" -> FALSE
      [] x.t = "list" -> Len(x.v) > 0
      [] x.t = "dict" -> Len(x.v) > 0

\* a or b
OrElse(a, b) == IF Truthy(a) THEN a ELSE b

RECURSIVE JoinWith(_, _)
JoinWith(ls, sep) ==
    IF Len(ls) = 0 THEN <<>>
    ELSE IF Len(ls) = 1 THEN ls[1]
    ELSE ls[1] \o sep \o JoinWith(Tail(ls), sep)

\* repr(value) for strings free of quotes, backslashes and control characters
RECURSIVE PyRepr(_)
PyRepr(x) ==
    CASE x.t = "str" -> <<"'">> \o x.v \o <<"'">>
      [] x.t = "num" -> x.v
      [] x.t = "null" -> <<"N", "o", "n", "e">>
      [] x.t = "list" ->
            <<"[">> \o JoinWith([i \in 1..Len(x.v) |-> PyRepr(x.v[i])], <<",", " ">>) \o <<"]">>
      [] x.t = "dict" ->
            <<"{">> \o JoinWith([i \in 1..Len(x.v) |->
                          <<"'">> \o x.v[i][1] \o <<"'", ":", " ">> \o PyRepr(x.v[i][2])],
                        <<",", " ">>) \o <<"}">>

\* str(value), also what an f-string writes
Str(x) == IF x.t = "str" THEN x.v ELSE PyRepr(x)

\* str.title(): a letter is upper-cased after a non-letter, lower-cased after
\* a letter
title(s) ==
    [i \in 1..Len(s) |->
        IF i > 1 /\ s[i - 1] \in (UpperChars \cup LowerChars)
        THEN LowerChar(s[i])
        ELSE UpperChar(s[i])]

K_name == <<"n", "a", "m", "e">>

K_contact == <<"c", "o", "n", "t", "a", "c", "t">>

K_education == <<"e", "d", "u", "c", "a", "t", "i", "o", "n">>

K_institution == <<"i", "n", "s", "t", "i", "t", "u", "t", "i", "o", "n">>

K_location == <<"l", "o", "c", "a", "t", "i", "o", "n">>

K_expectedGraduation == <<"e", "x", "p", "e", "c", "t", "e", "d", "G", "r", "a", "d", "u", "a", "t", "i", "o", "n">>

K_degree == <<"d", "e", "g", "r", "e", "e">>

K_gpa == <<"g", "p", "a">>

K_honors == <<"h", "o", "n", "o", "r", "s">>

K_courses == <<"c", "o", "u", "r", "s", "e", "s">>

K_title == <<"t", "i", "t", "l", "e">>

K_jobTitle == <<"j", "o", "b", "T", "i", "t", "l", "e">>

K_position == <<"p", "o", "s", "i", "t", "i", "o", "n">>

K_company == <<"c", "o", "m", "p", "a", "n", "y">>

K_employer == <<"e", "m", "p", "l", "o", "y", "e", "r">>

K_dates == <<"d", "a", "t", "e", "s">>

K_dateRange == <<"d", "a", "t", "e", "R", "a", "n", "g", "e">>

K_duration == <<"d", "u", "r", "a", "t", "i", "o", "n">>

K_responsibilities == <<"r", "e", "s", "p", "o", "n", "s", "i", "b", "i", "l", "i", "t", "i", "e", "s">>

K_bullets == <<"b", "u", "l", "l", "e", "t", "s">>

K_achievements == <<"a", "c", "h", "i", "e", "v", "e", "m", "e", "n", "t", "s">>

K_duties == <<"d", "u", "t", "i", "e", "s">>

K_technicalProjects == <<"t", "e", "c", "h", "n", "i", "c", "a", "l", "P", "r", "o", "j", "e", "c", "t", "s">>

K_projects == <<"p", "r", "o", "j", "e", "c", "t", "s">>

K_description == <<"d", "e", "s", "c", "r", "i", "p", "t", "i", "o", "n">>

K_summary == <<"s", "u", "m", "m", "a", "r", "y">>

K_leadership == <<"l", "e", "a", "d", "e", "r", "s", "h", "i", "p">>

K_certifications == <<"c", "e", "r", "t", "i", "f", "i", "c", "a", "t", "i", "o", "n", "s">>

\* the placeholder labels left out of the contact line
ContactPlaceholders == {<<"G", "i", "t", "H", "u", "b">>, <<"L", "i", "n", "k", "e", "d", "I", "n">>, <<"g", "i", "t", "h", "u", "b">>, <<"l", "i", "n", "k", "e", "d", "i", "n">>}

\* lines 932-939: the entries appended for the contact dictionary
ContactLines(d) ==
    IF ~HasKey(d, K_contact) THEN <<>>
    ELSE LET contact == Item(d, K_contact)
             kept == SelectSeq(contact.v,
                        LAMBDA kv : Truthy(kv[2]) /\
                                    ~(kv[2].t = "str" /\ kv[2].v \in ContactPlaceholders))
         IN  IF Len(kept) = 0 THEN <<>>
             ELSE << JStr(JoinWith([i \in 1..Len(kept) |-> Str(kept[i][2])], <<" ", "|", " ">>)) >>

\* lines 942-962: the entries appended for the education key
EducationLines(d) ==
    IF ~HasKey(d, K_education) THEN <<>>
    ELSE LET edu == Item(d, K_education)
         IN  << JStr(<<NL>> \o <<"E", "D", "U", "C", "A", "T", "I", "O", "N">>) >> \o
             (IF edu.t # "dict" THEN << JStr(Str(edu)) >>
              ELSE (IF HasKey(edu, K_institution)
                    THEN << JStr(Str(Item(edu, K_institution)) \o <<",", " ">>
                                 \o Str(GetOr(edu, K_location))
                                 \o (IF HasKey(edu, K_expectedGraduation)
                                     THEN <<",", " ", "E", "x", "p", "e", "c", "t", "e", "d", ":", " ">> \o Str(Item(edu, K_expectedGraduation))
                                     ELSE <<>>)) >>
                    ELSE <<>>)
                \o (IF HasKey(edu, K_degree) THEN << Item(edu, K_degree) >> ELSE <<>>)
                \o (IF HasKey(edu, K_gpa)
                    THEN << JStr(<<"G", "P", "A", ":", " ">> \o Str(Item(edu, K_gpa))) >> ELSE <<>>)
                \o (IF HasKey(edu, K_honors) /\ Item(edu, K_honors).t = "list"
                    THEN [i \in 1..Len(Item(edu, K_honors).v) |->
                             JStr(<<BULLET, " ">> \o Str(Item(edu, K_honors).v[i]))]
                    ELSE <<>>)
                \o (IF HasKey(edu, K_courses) /\ Item(edu, K_courses).t = "list"
                    THEN << JStr(<<BULLET>> \o <<" ", "R", "e", "l", "e", "v", "a", "n", "t", " ", "C", "o", "u", "r", "s", "e", "s", ":", " ">>
                                 \o JoinWith([i \in 1..Len(Item(edu, K_courses).v) |->
                                                 Item(edu, K_courses).v[i].v], <<",", " ">>)) >>
                    ELSE <<>>))

\* the alias lists of lines 966 and 986
skills_keys == << <<"s", "k", "i", "l", "l", "s">>, <<"t", "e", "c", "h", "n", "i", "c", "a", "l", "S", "k", "i", "l", "l", "s">>, <<"t", "e", "c", "h", "n", "i", "c", "a", "l", "_", "s", "k", "i", "l", "l", "s">> >>

experience_keys ==
    << <<"p", "r", "o", "f", "e", "s", "s", "i", "o", "n", "a", "l", "E", "x", "p", "e", "r", "i", "e", "n", "c", "e", "s">>, <<"e", "x", "p", "e", "r", "i", "e", "n", "c", "e", "s">>, <<"w", "o", "r", "k", "E", "x", "p", "e", "r", "i", "e", "n", "c", "e">>, <<"p", "r", "o", "f", "e", "s", "s", "i", "o", "n", "a", "l", "_", "e", "x", "p", "e", "r", "i", "e", "n", "c", "e", "s">> >>

\* the loops of lines 966-969 and 986-989: the first alias present, 0 if none
FirstKey(d, keys) ==
    IF \E n \in 1..Len(keys) : HasKey(d, keys[n])
    THEN CHOOSE n \in 1..Len(keys) :
            HasKey(d, keys[n]) /\ \A m \in 1..(n - 1) : ~HasKey(d, keys[m])
    ELSE 0

\* line 978: skill_category.replace('_', ' ').title()
CategoryName(k) == title([i \in 1..Len(k) |-> IF k[i] = "_" THEN " " ELSE k[i]])

\* lines 971-982: the entries appended for the skills key
SkillsLines(d) ==
    LET n == FirstKey(d, skills_keys)
    IN  IF n = 0 THEN <<>>
        ELSE LET skills == Item(d, skills_keys[n])
             IN  << JStr(<<NL>> \o <<"T", "E", "C", "H", "N", "I", "C", "A", "L", " ", "S", "K", "I", "L", "L", "S">>) >> \o
                 (IF skills.t # "dict" THEN << JStr(Str(skills)) >>
                  ELSE LET kept == SelectSeq(skills.v,
                                      LAMBDA kv : kv[2].t = "list" /\ Len(kv[2].v) > 0)
                       IN  [i \in 1..Len(kept) |->
                              JStr(CategoryName(kept[i][1]) \o <<":", " ">>
                                   \o JoinWith([j \in 1..Len(kept[i][2].v) |->
                                                   Str(kept[i][2].v[j])], <<",", " ">>))])

\* lines 1024-1038: the bullets of one experience entry
ResponsibilityLines(exp) ==
    LET r == OrElse(OrElse(OrElse(OrElse(
                 IF HasKey(exp, K_responsibilities) THEN Item(exp, K_responsibilities) ELSE JNull,
                 IF HasKey(exp, K_bullets) THEN Item(exp, K_bullets) ELSE JNull),
                 IF HasKey(exp, K_achievements) THEN Item(exp, K_achievements) ELSE JNull),
                 IF HasKey(exp, K_duties) THEN Item(exp, K_duties) ELSE JNull),
                 JList(<<>>))
    IN  IF r.t = "list"
        THEN [i \in 1..Len(r.v) |-> JStr(<<BULLET, " ">> \o Str(r.v[i]))]
        ELSE IF Truthy(r)
        THEN LET ls == SelectSeq(split(Str(r)), LAMBDA l : Len(strip(l)) > 0)
             IN  [i \in 1..Len(ls) |-> JStr(<<BULLET, " ">> \o strip(ls[i]))]
        ELSE <<>>

\* lines 1001-1038: the entries appended for one element of the experience list
ExperienceEntryLines(exp) ==
    IF exp.t # "dict" THEN <<>>
    ELSE LET title_ == OrElse(OrElse(GetOr(exp, K_title), GetOr(exp, K_jobTitle)),
                              GetOr(exp, K_position))
             company == OrElse(GetOr(exp, K_company), GetOr(exp, K_employer))
             location == GetOr(exp, K_location)
             dates == OrElse(OrElse(GetOr(exp, K_dates), GetOr(exp, K_dateRange)),
                             GetOr(exp, K_duration))
         IN  << JStr(Str(title_)
                     \o (IF Truthy(dates) THEN <<",", " ">> \o Str(dates) ELSE <<>>)) >>
             \o (IF Truthy(company)
                 THEN << JStr(company.v
                              \o (IF Truthy(location) THEN <<",", " ">> \o Str(location)
                                  ELSE <<>>)) >>
                 ELSE <<>>)
             \o ResponsibilityLines(exp)

RECURSIVE FlattenLines(_)
FlattenLines(ll) == IF Len(ll) = 0 THEN <<>> ELSE ll[1] \o FlattenLines(Tail(ll))

\* lines 991-1038: the entries appended for the experience key
ExperienceLines(d) ==
    LET n == FirstKey(d, experience_keys)
    IN  IF n = 0 THEN <<>>
        ELSE LET experiences == Item(d, experience_keys[n])
             IN  << JStr(<<NL>> \o <<"P", "R", "O", "F", "E", "S", "S", "I", "O", "N", "A", "L", " ", "E", "X", "P", "E", "R", "I", "E", "N", "C", "E", "S">>) >> \o
                 (IF experiences.t = "list"
                  THEN FlattenLines([i \in 1..Len(experiences.v) |->
                                        ExperienceEntryLines(experiences.v[i])])
                  ELSE <<>>)

\* lines 1052-1059: the entries appended for one project
ProjectLines(project) ==
    IF project.t # "dict" THEN <<>>
    ELSE LET title_ == OrElse(GetOr(project, K_title), GetOr(project, K_name))
             description == OrElse(GetOr(project, K_description), GetOr(project, K_summary))
         IN  (IF Truthy(title_) THEN << JStr(<<BULLET, " ">> \o Str(title_)) >> ELSE <<>>)
             \o (IF Truthy(description)
                 THEN << JStr(<<" ", " ">> \o Str(description)) >> ELSE <<>>)

\* lines 1045-1059: the entries appended for the projects key
ProjectsLines(d) ==
    IF ~(HasKey(d, K_technicalProjects) \/ HasKey(d, K_projects)) THEN <<>>
    ELSE LET projects == IF HasKey(d, K_technicalProjects)
                         THEN Item(d, K_technicalProjects) ELSE Item(d, K_projects)
         IN  IF projects.t = "list" /\ Len(projects.v) > 0
             THEN << JStr(<<NL>> \o <<"T", "E", "C", "H", "N", "I", "C", "A", "L", " ", "P", "R", "O", "J", "E", "C", "T", "S">>) >>
                    \o FlattenLines([i \in 1..Len(projects.v) |-> ProjectLines(projects.v[i])])
             ELSE <<>>

\* lines 1062-1068 and 1071-1077: a header and one bullet per item
BulletListLines(d, key, header) ==
    IF HasKey(d, key) /\ Item(d, key).t = "list" /\ Len(Item(d, key).v) > 0
    THEN << JStr(<<NL>> \o header) >>
           \o [i \in 1..Len(Item(d, key).v) |->
                  JStr(<<BULLET, " ">> \o Str(Item(d, key).v[i]))]
    ELSE <<>>

\* the list resume_text at line 1079; an entry that is not a string makes
\* the join raise
\* the entries with the skills block written ahead of the education block
ResumeTextEntries_SkillsFirst(d) ==
    (IF HasKey(d, K_name) THEN << Item(d, K_name) >> ELSE <<>>)
      \o ContactLines(d)
      \o SkillsLines(d)
      \o EducationLines(d)
      \o ExperienceLines(d)
      \o ProjectsLines(d)
      \o BulletListLines(d, K_leadership, <<"L", "E", "A", "D", "E", "R", "S", "H", "I", "P">>)
      \o BulletListLines(d, K_certifications, <<"C", "E", "R", "T", "I", "F", "I", "C", "A", "T", "I", "O", "N", "S">>)

\* resume_text before the join of line 1079: one entry per append, in the
\* order of the blocks of lines 929-1077
ResumeTextEntries(d) ==
    (IF HasKey(d, K_name) THEN << Item(d, K_name) >> ELSE <<>>)
      \o ContactLines(d)
      \o EducationLines(d)
      \o SkillsLines(d)
      \o ExperienceLines(d)
      \o ProjectsLines(d)
      \o BulletListLines(d, K_leadership, <<"L", "E", "A", "D", "E", "R", "S", "H", "I", "P">>)
      \o BulletListLines(d, K_certifications, <<"C", "E", "R", "T", "I", "F", "I", "C", "A", "T", "I", "O", "N", "S">>)

\* the function raises: contact.items() on a value that is not a dictionary
\* (line 935), a company that is not a string (lines 1018-1020),
\* ', '.join(courses) or '\n'.join(resume_text) on an entry that is not a
\* string (lines 960, 1079)
DictToTextRaises(x) ==
    IF x.t # "dict" THEN FALSE
    ELSE IF HasKey(x, K_contact) /\ Item(x, K_contact).t # "dict" THEN TRUE
    ELSE IF /\ HasKey(x, K_education)
            /\ Item(x, K_education).t = "dict"
            /\ HasKey(Item(x, K_education), K_courses)
            /\ Item(Item(x, K_education), K_courses).t = "list"
            /\ \E i \in 1..Len(Item(Item(x, K_education), K_courses).v) :
                  Item(Item(x, K_education), K_courses).v[i].t # "str"
    THEN TRUE
    ELSE IF /\ FirstKey(x, experience_keys) > 0
            /\ LET es == Item(x, experience_keys[FirstKey(x, experience_keys)])
               IN  /\ es.t = "list"
                   /\ \E i \in 1..Len(es.v) :
                         /\ es.v[i].t = "dict"
                         /\ LET c == OrElse(GetOr(es.v[i], K_company),
                                            GetOr(es.v[i], K_employer))
                                l == GetOr(es.v[i], K_location)
                            IN  /\ c.t # "str"
                                /\ \/ Truthy(c)
                                   \/ Truthy(l) /\ c.t \in {"null", "num", "dict"}
    THEN TRUE
    ELSE \E i \in 1..Len(ResumeTextEntries(x)) : ResumeTextEntries(x)[i].t # "str"

\* the text returned when the function does not raise
_dict_to_resume_text(x) ==
    IF x.t # "dict" THEN Str(x)
    ELSE LET entries == ResumeTextEntries(x)
         IN  strip(JoinWith([i \in 1..Len(entries) |-> entries[i].v], <<NL>>))

\* ------------------------------------------------------------------------
\* State
\* ------------------------------------------------------------------------

VARIABLES
    \* process configuration
    api_key,          \* settings.openai_api_key or OPENAI_API_KEY is set
    \* extract_text_from_pdf: one request
    xpc,              \* position in extract_text_from_pdf
    pdf_buffer,       \* the document: text layer and scanned image of each page
    extracted_text,   \* local extracted_text
    formatting_info,  \* local formatting_info
    ocr_text,         \* local ocr_text
    primary_text,     \* extracted_text as the primary extraction left it
    primary_raised,   \* the try block raised before reaching the OCR call
    ocr_calls,        \* number of invocations of extract_text_with_ocr
    xresult,          \* what the caller of extract_text_from_pdf gets
    base_file,        \* content of resume/baseResume.txt, NoFile before any write
    \* filter_keywords_with_ai: one request
    fpc,              \* position in filter_keywords_with_ai
    missing_phrases,  \* argument missing_phrases
    classify_response,\* what the classification capability answered
    fpath,            \* the return statement taken
    fresult,          \* what the caller of filter_keywords_with_ai gets
    \* generate_optimized_resume: one request
    gpc,                  \* position in generate_optimized_resume
    original_resume_text, \* argument original_resume_text
    selected_keywords,    \* argument selected_keywords
    keywords,             \* local keywords
    edit_response,        \* what the edit capability answered
    optimized_text,       \* local optimized_text
    gpath,                \* the return statement taken
    gresult,              \* what the caller of generate_optimized_resume gets
    optimized_file,       \* content of resume/optimizedResume.txt
    \* analyze_resume_against_job: one request
    apc,              \* position in analyze_resume_against_job
    resume_text,      \* argument resume_text
    job_data,         \* argument job_data: the phrases of its list fields, in order
    job_phrases,      \* local job_phrases after line 479
    matching,         \* local matching
    aresult,          \* what the caller of analyze_resume_against_job gets
    \* one call of a text function
    called,           \* the function called, "none" before the call
    arg_text,         \* argument text
    arg_resume_dict,  \* argument resume_dict
    returned,         \* the value the call returned
    \* extract_text_with_ocr: one call
    opc,              \* position in extract_text_with_ocr
    rendered_images,  \* local images: the rendered pages
    ocr_local_text,   \* local text
    recognised,       \* number of calls of pytesseract.image_to_string
    \* requests served side by side
    rpc,              \* position of each request
    rkind,            \* the operation each request asks for
    rtext,            \* the text each request extracts or generates
    writers,          \* per file, the requests that have written it
    \* one request to an extract-text entry point
    epc,              \* position in the handler
    entry,            \* the handler that serves the request
    upload,           \* the uploaded file: filename and size in bytes
    rejection,        \* the HTTPException raised by the validation, if any
    extract_invoked,  \* extract_text_from_pdf has been called
    response          \* what the caller of the handler gets

xvars == <<xpc, pdf_buffer, extracted_text, formatting_info, ocr_text,
           primary_text, primary_raised, ocr_calls, xresult, base_file>>

fvars == <<fpc, missing_phrases, classify_response, fpath, fresult>>

gvars == <<gpc, original_resume_text, selected_keywords, keywords, edit_response,
           optimized_text, gpath, gresult, optimized_file>>

avars == <<apc, resume_text, job_data, job_phrases, matching, aresult>>

cvars == <<called, arg_text, arg_resume_dict, returned>>

ovars == <<opc, rendered_images, ocr_local_text, recognised>>

rvars == <<rpc, rkind, rtext, writers>>

evars == <<epc, entry, upload, rejection, extract_invoked, response>>

vars == <<api_key, xvars, fvars, gvars, avars, cvars, ovars, rvars, evars>>

\* ------------------------------------------------------------------------
\* Bounds and sample inputs
\* ------------------------------------------------------------------------

\* pages with a text layer, and page images, per document
MaxPages == 2

MaxImages == 2

\* len(extracted_text.strip()) < 50
OcrThreshold == 50

\* images[:5]
OcrPageLimit == 5

Rep(c, n) == [i \in 1..n |-> c]

\* n letters separated by single spaces: 2n - 1 characters, n of them letters
Sparse(n) == [i \in 1..(2 * n - 1) |-> IF i % 2 = 1 THEN "a" ELSE " "]

NonSpaceCount(s) == Cardinality({i \in 1..Len(s) : s[i] \notin SpaceChars})

\* text layers a page may carry
PageTexts ==
    { <<>>,
      <<"E", "D", "U", "C", "A", "T", "I", "O", "N", "\n", "-", " ", "B", "S">>,
      Rep("a", OcrThreshold - 1),
      Rep("a", OcrThreshold),
      Sparse(OcrThreshold - 15),
      Rep(" ", OcrThreshold) \o <<"a", "b">> }

\* what the OCR engine reads on a page image
ImageTexts ==
    { <<>>,
      <<"S", "K", "I", "L", "L", "S", "\n", "*", " ", "S", "Q", "L">>,
      Rep("b", 3) }

SeqsUpTo(S, n) == UNION {[1..k -> S] : k \in 0..n}

Documents ==
    [pages : SeqsUpTo(PageTexts, MaxPages), images : SeqsUpTo(ImageTexts, MaxImages)]

NoFile == <<"<no file>">>

\* ------------------------------------------------------------------------
\* extract_text_from_pdf, extract_text_with_ocr
\* ------------------------------------------------------------------------

\* the loop over reader.pages: page_text + "\n" for every non-empty page
RECURSIVE ConcatPages(_)
ConcatPages(pages) ==
    IF Len(pages) = 0 THEN <<>>
    ELSE (IF Len(pages[1]) > 0 THEN pages[1] \o <<NL>> ELSE <<>>)
           \o ConcatPages(Tail(pages))

\* the loop over images[:5]: image_to_string(image) + "\n" for every image
RECURSIVE ConcatImages(_)
ConcatImages(images) ==
    IF Len(images) = 0 THEN <<>>
    ELSE images[1] \o <<NL>> \o ConcatImages(Tail(images))

\* the value extract_text_with_ocr returns when nothing raises
extract_text_with_ocr(buf) ==
    normalize_bullet_points(
        ConcatImages(Slice(buf.images, 1,
            IF Len(buf.images) < OcrPageLimit THEN Len(buf.images) ELSE OcrPageLimit)))

InitialFormatting ==
    [sections |-> <<>>, hasDetectedFormatting |-> FALSE, bulletCount |-> 0]

NoResult == [kind |-> "none"]

Returned(text, formatting) ==
    [kind |-> "returned", text |-> text, formatting |-> formatting]

Raised == [kind |-> "raised"]

\* the extraction request is not running
XIdle ==
    /\ xpc = "idle"
    /\ pdf_buffer = [pages |-> <<>>, images |-> <<>>]
    /\ extracted_text = <<>>
    /\ formatting_info = InitialFormatting
    /\ ocr_text = <<>>
    /\ primary_text = <<>>
    /\ primary_raised = FALSE
    /\ ocr_calls = 0
    /\ xresult = NoResult
    /\ base_file = NoFile

\* the filter request is not running
FIdle ==
    /\ fpc = "idle"
    /\ missing_phrases = <<>>
    /\ classify_response = [kind |-> "none"]
    /\ fpath = "none"
    /\ fresult = [kind |-> "none"]

\* the generation request is not running
GIdle ==
    /\ gpc = "idle"
    /\ original_resume_text = <<>>
    /\ selected_keywords = <<>>
    /\ keywords = <<>>
    /\ edit_response = [kind |-> "none"]
    /\ optimized_text = <<>>
    /\ gpath = "none"
    /\ gresult = [kind |-> "none"]
    /\ optimized_file = NoFile

\* the analysis request is not running
AIdle ==
    /\ apc = "idle"
    /\ resume_text = <<>>
    /\ job_data = <<>>
    /\ job_phrases = <<>>
    /\ matching = <<>>
    /\ aresult = [kind |-> "none"]

\* no text function has been called
CIdle ==
    /\ called = "none"
    /\ arg_text = <<>>
    /\ arg_resume_dict = JNull
    /\ returned = [kind |-> "none"]

\* extract_text_with_ocr is not running on its own
OIdle ==
    /\ opc = "idle"
    /\ rendered_images = <<>>
    /\ ocr_local_text = <<>>
    /\ recognised = 0

\* no requests are served side by side
RIdle ==
    /\ rpc = <<>>
    /\ rkind = <<>>
    /\ rtext = <<>>
    /\ writers = [f \in {"baseResume.txt", "optimizedResume.txt"} |-> {}]

\* no entry point is serving a request
EIdle ==
    /\ epc = "idle"
    /\ entry = "none"
    /\ upload = [filename |-> <<>>, size |-> 0]
    /\ rejection = [status |-> 0]
    /\ extract_invoked = FALSE
    /\ response = [status |-> 0]

XInit ==
    /\ api_key = TRUE
    /\ FIdle
    /\ GIdle
    /\ AIdle
    /\ CIdle
    /\ OIdle
    /\ RIdle
    /\ EIdle
    /\ xpc = "primary"
    /\ pdf_buffer \in Documents
    /\ extracted_text = <<>>
    /\ formatting_info = InitialFormatting
    /\ ocr_text = <<>>
    /\ primary_text = <<>>
    /\ primary_raised = FALSE
    /\ ocr_calls = 0
    /\ xresult = NoResult
    /\ base_file = NoFile

\* the fallback condition without str.strip(): surrounding whitespace counts
NeedsOcr_NoStrip(text) == Len(text) < OcrThreshold

\* the condition of the OCR fallback inside the try block
NeedsOcr(text) == Len(strip(text)) < OcrThreshold

\* lines 145-161, no exception: the pages are read, the text is normalized,
\* the structure is detected and the fallback condition is evaluated
PrimarySucceeds ==
    /\ xpc = "primary"
    /\ LET text == normalize_bullet_points(ConcatPages(pdf_buffer.pages))
           secs == detect_resume_sections(text)
       IN  /\ extracted_text' = text
           /\ primary_text' = text
           /\ formatting_info' = [sections |-> secs,
                                  hasDetectedFormatting |-> (Len(secs) > 0),
                                  bulletCount |-> count_bullet_points(text)]
           /\ xpc' = IF NeedsOcr(text) THEN "ocr_try" ELSE "save"
    /\ UNCHANGED <<pdf_buffer, ocr_text, primary_raised, ocr_calls, xresult, base_file>>
    /\ UNCHANGED <<api_key, fvars, gvars, avars, cvars, ovars, rvars, evars>>

\* lines 145-150 raise: PdfReader fails, or page.extract_text() fails after
\* n pages have been accumulated; control passes to the except clause
PrimaryRaises ==
    /\ xpc = "primary"
    /\ \E n \in 0..Len(pdf_buffer.pages) :
          /\ n = 0 \/ n < Len(pdf_buffer.pages)
          /\ extracted_text' = ConcatPages(Slice(pdf_buffer.pages, 1, n))
          /\ primary_text' = ConcatPages(Slice(pdf_buffer.pages, 1, n))
    /\ primary_raised' = TRUE
    /\ xpc' = "except"
    /\ UNCHANGED <<pdf_buffer, formatting_info, ocr_text, ocr_calls, xresult, base_file>>
    /\ UNCHANGED <<api_key, fvars, gvars, avars, cvars, ovars, rvars, evars>>

\* lines 163-167: the OCR call of the try block returns
OcrInTryReturns ==
    /\ xpc = "ocr_try"
    /\ ocr_calls' = ocr_calls + 1
    /\ LET t == extract_text_with_ocr(pdf_buffer)
       IN  /\ ocr_text' = t
           /\ IF Len(t) > Len(extracted_text)
              THEN /\ extracted_text' = t
                   /\ formatting_info' =
                        [formatting_info EXCEPT
                            !.sections = detect_resume_sections(t),
                            !.bulletCount = count_bullet_points(t)]
              ELSE UNCHANGED <<extracted_text, formatting_info>>
    /\ xpc' = "save"
    /\ UNCHANGED <<pdf_buffer, primary_text, primary_raised, xresult, base_file>>
    /\ UNCHANGED <<api_key, fvars, gvars, avars, cvars, ovars, rvars, evars>>

\* line 163 raises: the exception is caught by the except clause of line 178
OcrInTryRaises ==
    /\ xpc = "ocr_try"
    /\ ocr_calls' = ocr_calls + 1
    /\ xpc' = "except"
    /\ UNCHANGED <<pdf_buffer, extracted_text, formatting_info, ocr_text,
                   primary_text, primary_raised, xresult, base_file>>
    /\ UNCHANGED <<api_key, fvars, gvars, avars, cvars, ovars, rvars, evars>>

\* lines 169-176: both saves swallow their own errors, then the result returns
SaveAndReturn ==
    /\ xpc = "save"
    /\ base_file' = extracted_text
    /\ xresult' = Returned(extracted_text, formatting_info)
    /\ xpc' = "done"
    /\ UNCHANGED <<pdf_buffer, extracted_text, formatting_info, ocr_text,
                   primary_text, primary_raised, ocr_calls>>
    /\ UNCHANGED <<api_key, fvars, gvars, avars, cvars, ovars, rvars, evars>>

\* lines 179-186: the except clause calls OCR and returns its text
ExceptOcrReturns ==
    /\ xpc = "except"
    /\ ocr_calls' = ocr_calls + 1
    /\ LET t == extract_text_with_ocr(pdf_buffer)
           f == [formatting_info EXCEPT !.bulletCount = count_bullet_points(t)]
       IN  /\ ocr_text' = t
           /\ formatting_info' = f
           /\ base_file' = t
           /\ xresult' = Returned(t, f)
    /\ xpc' = "done"
    /\ UNCHANGED <<pdf_buffer, extracted_text, primary_text, primary_raised>>
    /\ UNCHANGED <<api_key, fvars, gvars, avars, cvars, ovars, rvars, evars>>

\* line 180 raises inside the except clause: nothing catches it
ExceptOcrRaises ==
    /\ xpc = "except"
    /\ ocr_calls' = ocr_calls + 1
    /\ xresult' = Raised
    /\ xpc' = "done"
    /\ UNCHANGED <<pdf_buffer, extracted_text, formatting_info, ocr_text,
                   primary_text, primary_raised, base_file>>
    /\ UNCHANGED <<api_key, fvars, gvars, avars, cvars, ovars, rvars, evars>>

XNext ==
    \/ PrimarySucceeds
    \/ PrimaryRaises
    \/ OcrInTryReturns
    \/ OcrInTryRaises
    \/ SaveAndReturn
    \/ ExceptOcrReturns
    \/ ExceptOcrRaises

SpecExtract == XInit /\ [][XNext]_vars


\* ------------------------------------------------------------------------
\* Properties of extract_text_from_pdf (SpecExtract)
\* ------------------------------------------------------------------------

\* C3: extract_text_from_pdf never raises to its caller, whatever the
\* outcomes of primary extraction and OCR are; every request ends with a
\* returned result.
C3_NeverRaises == xresult.kind # "raised"

\* C4: the OCR capability is invoked at most once per execution of
\* extract_text_from_pdf.
C4_OcrAtMostOnce == ocr_calls <= 1

\* C5 as stated: OCR is invoked if and only if primary extraction raised or
\* the primary text has fewer than 50 non-whitespace characters.
C5_OcrIffFewNonSpace ==
    xpc = "done" =>
        ((ocr_calls > 0) <=>
            (primary_raised \/ NonSpaceCount(primary_text) < OcrThreshold))

\* C5 amended: OCR is invoked if and only if primary extraction raised or
\* the primary text, with leading and trailing whitespace removed, is
\* shorter than 50 characters (inner whitespace counts).
C5_OcrIffShortStripped ==
    xpc = "done" =>
        ((ocr_calls > 0) <=>
            (primary_raised \/ Len(strip(primary_text)) < OcrThreshold))

\* a request that ran OCR on a primary text of 50 characters or more, all
\* but a few of them surrounding whitespace
C5_Witness ==
    /\ xpc = "done"
    /\ ~primary_raised
    /\ ocr_calls = 1
    /\ Len(primary_text) >= OcrThreshold
    /\ Len(strip(primary_text)) < OcrThreshold

\* what primary extraction yielded: its text, or nothing when it raised
PrimaryYield == IF primary_raised THEN <<>> ELSE primary_text

\* C6: whenever OCR ran, the returned text is the OCR text if it is strictly
\* longer than the text primary extraction yielded, and the primary text
\* otherwise (a tie keeps the primary text).
C6_StrictlyLongerWins ==
    (xpc = "done" /\ xresult.kind = "returned" /\ ocr_calls > 0) =>
        xresult.text =
            IF Len(ocr_text) > Len(PrimaryYield) THEN ocr_text ELSE PrimaryYield

\* C7: the structural info of every returned result describes the returned
\* text.
C7_FormattingDescribesText ==
    xresult.kind = "returned" =>
        /\ xresult.formatting.sections = detect_resume_sections(xresult.text)
        /\ xresult.formatting.bulletCount = count_bullet_points(xresult.text)
        /\ xresult.formatting.hasDetectedFormatting
              <=> (Len(xresult.formatting.sections) > 0)


\* ------------------------------------------------------------------------
\* filter_keywords_with_ai
\* ------------------------------------------------------------------------

\* longest list of missing phrases
MaxPhrases == 4

\* longest list of keywords in an answer of the classification capability
MaxAiKeywords == 2

P_Python == <<"P", "y", "t", "h", "o", "n">>

P_Years == <<"5", "+", " ", "y", "e", "a", "r", "s", " ", "e", "x", "p", "e", "r", "i", "e", "n", "c", "e">>

P_Degree == <<"B", "a", "c", "h", "e", "l", "o", "r", "'", "s", " ", "d", "e", "g", "r", "e", "e">>

P_SQL == <<"S", "Q", "L">>

P_TeamPlayer == <<"T", "e", "a", "m", " ", "P", "l", "a", "y", "e", "r">>

P_Strong == <<"S", "t", "r", "o", "n", "g">>

P_Docker == <<"D", "o", "c", "k", "e", "r">>

PhrasePool == {P_Python, P_Years, P_Degree, P_SQL, P_TeamPlayer, P_Strong}

\* analyze_resume_against_job passes trimmed, non-empty, de-duplicated phrases
PhraseLists ==
    {l \in SeqsUpTo(PhrasePool, MaxPhrases) :
        \A i, j \in 1..Len(l) : i # j => l[i] # l[j]}

\* a keyword entry as the classification capability writes it
AiEntry(phrase) ==
    [keyword |-> phrase,
     category |-> "Tool",
     priority |-> "high",
     suggestedIntegration |-> "Mention in a project bullet"]

\* the JSON values found under the key actionableKeywords
ActionableValues ==
    {[t |-> "absent"], [t |-> "null"], [t |-> "string"], [t |-> "object"]}
      \cup {[t |-> "array", v |-> l] :
               l \in SeqsUpTo({AiEntry(P_Python), AiEntry(P_Docker)}, MaxAiKeywords)}

\* the JSON values json.loads may produce from the answer
ClassifyJsonValues ==
    {[t |-> "null"], [t |-> "number"], [t |-> "string"], [t |-> "array"]}
      \cup {[t |-> "object", actionableKeywords |-> a] : a \in ActionableValues}

FInit ==
    /\ api_key \in BOOLEAN
    /\ XIdle
    /\ GIdle
    /\ AIdle
    /\ CIdle
    /\ OIdle
    /\ RIdle
    /\ EIdle
    /\ fpc = "start"
    /\ missing_phrases \in PhraseLists
    /\ classify_response = [kind |-> "none"]
    /\ fpath = "none"
    /\ fresult = [kind |-> "none"]

FReturn(path, value) ==
    /\ fpath' = path
    /\ fresult' = value
    /\ fpc' = "done"
    /\ UNCHANGED <<api_key, missing_phrases, xvars, gvars, avars, cvars, ovars, rvars, evars>>

\* lines 536-537: nothing to filter
FilterNoPhrases ==
    /\ fpc = "start"
    /\ Len(missing_phrases) = 0
    /\ FReturn("empty", [actionableKeywords |-> <<>>])
    /\ UNCHANGED classify_response

\* lines 539-542: no credentials, the rule-based filter answers
FilterNoApiKey ==
    /\ fpc = "start"
    /\ Len(missing_phrases) > 0
    /\ ~api_key
    /\ FReturn("no_key", _basic_keyword_filter(missing_phrases))
    /\ UNCHANGED classify_response

CanCall == fpc = "start" /\ Len(missing_phrases) > 0 /\ api_key

\* lines 545-601 raise (client construction, the request, a missing message
\* content): caught by the except clause of line 625
ClassifyRaises ==
    /\ CanCall
    /\ classify_response' = [kind |-> "raises"]
    /\ FReturn("exception", _basic_keyword_filter(missing_phrases))

\* lines 606-611: the answer is not valid JSON
ClassifyInvalidJson ==
    /\ CanCall
    /\ classify_response' = [kind |-> "invalid_json"]
    /\ FReturn("json_error", _basic_keyword_filter(missing_phrases))

\* line 614 on a JSON value that is not an object: result.get raises
\* AttributeError, caught by the except clause of line 625
ClassifyNotObject ==
    /\ CanCall
    /\ \E j \in ClassifyJsonValues :
          /\ j.t # "object"
          /\ classify_response' = [kind |-> "json", json |-> j]
    /\ FReturn("exception", _basic_keyword_filter(missing_phrases))

\* line 614: result.get("actionableKeywords", []), the default standing in
\* for a missing key
GetActionableKeywords(j) ==
    IF j.actionableKeywords.t = "absent"
    THEN [t |-> "array", v |-> <<>>]
    ELSE j.actionableKeywords

\* lines 616-618: actionableKeywords is not a list
ClassifyNotList ==
    /\ CanCall
    /\ \E j \in ClassifyJsonValues :
          /\ j.t = "object"
          /\ GetActionableKeywords(j).t # "array"
          /\ classify_response' = [kind |-> "json", json |-> j]
    /\ FReturn("not_list", _basic_keyword_filter(missing_phrases))

\* lines 620-624: the list is returned as it came
ClassifyAccepted ==
    /\ CanCall
    /\ \E j \in ClassifyJsonValues :
          /\ j.t = "object"
          /\ GetActionableKeywords(j).t = "array"
          /\ classify_response' = [kind |-> "json", json |-> j]
          /\ FReturn("ai", [actionableKeywords |-> GetActionableKeywords(j).v])

FNext ==
    \/ FilterNoPhrases
    \/ FilterNoApiKey
    \/ ClassifyRaises
    \/ ClassifyInvalidJson
    \/ ClassifyNotObject
    \/ ClassifyNotList
    \/ ClassifyAccepted

SpecFilter == FInit /\ [][FNext]_vars

\* ------------------------------------------------------------------------
\* Properties of the actionability filter (SpecFilter)
\* ------------------------------------------------------------------------

\* the answer is a JSON object whose actionableKeywords is a list
IsTrustedAnswer(r) ==
    /\ r.kind = "json"
    /\ r.json.t = "object"
    /\ r.json.actionableKeywords.t = "array"

\* C9: for every outcome of the classification capability that is not a JSON
\* object whose actionableKeywords is a list, filter_keywords_with_ai returns
\* exactly _basic_keyword_filter(missing_phrases).
C9_UntrustedFallsBack ==
    (fpc = "done" /\ ~IsTrustedAnswer(classify_response)) =>
        fresult = _basic_keyword_filter(missing_phrases)

ExamplePhrases == <<P_Python, P_Years, P_Degree, P_SQL>>

MatchesExcludedPattern(phrase) ==
    \E n \in 1..NonActionablePatternCount : SearchNonActionable(n, lower(phrase))

\* C10: the rule-based filter returns exactly the input phrases that match
\* none of the excluded patterns, in input order, each with category "Skill"
\* and priority "medium"; the example list yields Python and SQL.
C10_RuleBasedFilter ==
    (fpc = "done" /\ fpath \in {"no_key", "exception", "json_error", "not_list"}) =>
        LET out == fresult.actionableKeywords
        IN  /\ [i \in 1..Len(out) |-> out[i].keyword]
                 = SelectSeq(missing_phrases, LAMBDA p : ~MatchesExcludedPattern(p))
            /\ \A i \in 1..Len(out) :
                  out[i].category = "Skill" /\ out[i].priority = "medium"
            /\ missing_phrases = ExamplePhrases =>
                  [i \in 1..Len(out) |-> out[i].keyword] = <<P_Python, P_SQL>>

\* the rule-based filter has answered for the example list
C10_Witness ==
    /\ fpc = "done"
    /\ fpath = "no_key"
    /\ missing_phrases = ExamplePhrases
    /\ Len(fresult.actionableKeywords) = 2


\* ------------------------------------------------------------------------
\* generate_optimized_resume
\* ------------------------------------------------------------------------

\* longest list of selected keywords
MaxKeywords == 2

K_keyword == <<"k", "e", "y", "w", "o", "r", "d">>

\* the entries a caller may select: a plain string, a dictionary with a
\* keyword, a dictionary with an empty keyword, a blank string
KeywordEntries ==
    { JStr(<<"S", "Q", "L">>),
      JDict(<< <<K_keyword, JStr(<<"m", "a", "c", "h", "i", "n", "e", " ", "l", "e", "a", "r", "n", "i", "n", "g">>)>> >>),
      JDict(<< <<K_keyword, JStr(<<>>)>> >>),
      JStr(<<" ">>) }

\* resumes the caller may send as original_resume_text
O_Resume == <<"E", "D", "U", "C", "A", "T", "I", "O", "N", "\n", "U+2022", " ", "B", "S", "\n", "S", "K", "I", "L", "L", "S", "\n", "U+2022", " ", "S", "Q", "L", "\n", "U+2022", " ", "P", "y", "t", "h", "o", "n">>

O_RunOn == <<"J", "a", "n", "e", " ", "D", "o", "e", " ", " ", "E", "D", "U", "C", "A", "T", "I", "O", "N", "\n", "U+2022", " ", "B", "S", " ", "U+2022", " ", "M", "S">>

OriginalTexts == {<<>>, O_Resume, O_RunOn}

\* texts the edit capability may put under optimizedResume
E_Full == <<"E", "D", "U", "C", "A", "T", "I", "O", "N", "\n", "U+2022", " ", "B", "S", "\n", "S", "K", "I", "L", "L", "S", "\n", "U+2022", " ", "S", "Q", "L", "\n", "U+2022", " ", "P", "y", "t", "h", "o", "n", "\n", "U+2022", " ", "m", "a", "c", "h", "i", "n", "e", " ", "l", "e", "a", "r", "n", "i", "n", "g">>

E_Boundary == <<"E", "D", "U", "C", "A", "T", "I", "O", "N", "\n", "U+2022", " ", "B", "S", "\n", "S", "K", "I", "L", "L", "S", "\n", "U+2022", " ", "l", "e", "a", "r", "n", "i", "n", "g", " ", "o", "f", " ", "a", " ", "m", "a", "c", "h", "i", "n", "e">>

E_Truncated == <<"E", "D", "U", "C", "A", "T", "I", "O", "N", "\n", "U+2022", " ", "B", "S", "\n", "S", "K", "I", "L", "L", "S">>

\* structured answers
T_NameEducation ==
    JDict(<< <<K_name, JStr(<<"J", "a", "n", "e", " ", "D", "o", "e">>)>>,
             <<K_education, JDict(<< <<K_institution, JStr(<<"X">>)>>,
                                     <<K_location, JStr(<<"Y">>)>> >>)>> >>)

T_BadContact == JDict(<< <<K_contact, JStr(<<"j", "a", "n", "e">>)>> >>)

OptimizedResumeValues ==
    { [t |-> "absent"], JNull, JStr(<<>>), JStr(<<" ">>),
      JStr(E_Full), JStr(E_Boundary), JStr(E_Truncated),
      T_NameEducation, T_BadContact, JDict(<<>>), JList(<<>>) }

\* the section list an answer may carry under resumeSections
AiSections == << [name |-> <<"S", "K", "I", "L", "L", "S">>, type |-> "skills", lineNumber |-> 2] >>

EditJsonValues ==
    {[t |-> "null"], [t |-> "list"]}
      \cup [t : {"object"},
            optimizedResume : OptimizedResumeValues,
            resumeSections : {[t |-> "absent"], [t |-> "list", v |-> AiSections]},
            atsScore : {[t |-> "absent"], [t |-> "num", v |-> 85]}]

GInit ==
    /\ api_key \in BOOLEAN
    /\ XIdle
    /\ FIdle
    /\ AIdle
    /\ CIdle
    /\ OIdle
    /\ RIdle
    /\ EIdle
    /\ gpc = "start"
    /\ original_resume_text \in OriginalTexts
    /\ selected_keywords \in SeqsUpTo(KeywordEntries, MaxKeywords)
    /\ keywords = <<>>
    /\ edit_response = [kind |-> "none"]
    /\ optimized_text = <<>>
    /\ gpath = "none"
    /\ gresult = [kind |-> "none"]
    /\ optimized_file = NoFile

\* lines 687-693: the value taken from one selected keyword
KeywordValue(k) ==
    IF k.t = "dict" THEN (IF HasKey(k, K_keyword) THEN Item(k, K_keyword) ELSE JStr(<<>>))
    ELSE IF k.t = "str" THEN k
    ELSE JStr(Str(k))

\* lines 686-696: the list keywords
RECURSIVE ExtractKeywords(_)
ExtractKeywords(sel) ==
    IF Len(sel) = 0 THEN <<>>
    ELSE (IF Truthy(KeywordValue(sel[1]))
          THEN <<strip(Str(KeywordValue(sel[1])))>> ELSE <<>>)
           \o ExtractKeywords(Tail(sel))

\* a failure result that keeps a text under optimizedResume
Failure_KeepsText(message) == [success |-> FALSE, optimizedResume |-> <<"x">>, message |-> message]

\* the result of lines 679, 683, 699, 763, 786 and 844
Failure(message) == [success |-> FALSE, optimizedResume |-> <<>>, message |-> message]

GReturn(path, value) ==
    /\ gpath' = path
    /\ gresult' = value
    /\ gpc' = "done"
    /\ UNCHANGED <<api_key, original_resume_text, selected_keywords, xvars, fvars, avars, cvars, ovars, rvars, evars>>

\* lines 678-679
GenerateNoKeywords ==
    /\ gpc = "start"
    /\ Len(selected_keywords) = 0
    /\ GReturn("no_keywords", Failure("No keywords selected."))
    /\ UNCHANGED <<keywords, edit_response, optimized_text, optimized_file>>

\* lines 681-683
GenerateNoApiKey ==
    /\ gpc = "start"
    /\ Len(selected_keywords) > 0
    /\ ~api_key
    /\ GReturn("no_api_key", Failure("OpenAI API key missing."))
    /\ UNCHANGED <<keywords, edit_response, optimized_text, optimized_file>>

\* lines 686-699
GenerateNoValidKeywords ==
    /\ gpc = "start"
    /\ Len(selected_keywords) > 0
    /\ api_key
    /\ Len(ExtractKeywords(selected_keywords)) = 0
    /\ keywords' = <<>>
    /\ GReturn("no_valid_keywords", Failure("No valid keywords."))
    /\ UNCHANGED <<edit_response, optimized_text, optimized_file>>

\* the request reaches the edit capability
CanEdit ==
    /\ gpc = "start"
    /\ Len(selected_keywords) > 0
    /\ api_key
    /\ Len(ExtractKeywords(selected_keywords)) > 0

\* lines 711-754 raise: caught by the except clause of line 840
EditRaises ==
    /\ CanEdit
    /\ keywords' = ExtractKeywords(selected_keywords)
    /\ edit_response' = [kind |-> "raises"]
    /\ GReturn("exception", Failure("Generation failed"))
    /\ UNCHANGED <<optimized_text, optimized_file>>

\* lines 758-763: the answer is not valid JSON
EditInvalidJson ==
    /\ CanEdit
    /\ keywords' = ExtractKeywords(selected_keywords)
    /\ edit_response' = [kind |-> "invalid_json"]
    /\ GReturn("invalid_json", Failure("AI returned invalid JSON."))
    /\ UNCHANGED <<optimized_text, optimized_file>>

\* line 765 on a JSON value that is not an object: result.get raises
\* AttributeError, caught by the except clause of line 840
EditNotObject ==
    /\ CanEdit
    /\ keywords' = ExtractKeywords(selected_keywords)
    /\ \E j \in EditJsonValues :
          /\ j.t # "object"
          /\ edit_response' = [kind |-> "json", json |-> j]
    /\ GReturn("exception", Failure("Generation failed"))
    /\ UNCHANGED <<optimized_text, optimized_file>>

\* line 765: result.get("optimizedResume", "")
GetOptimizedResume(j) ==
    IF j.optimizedResume.t = "absent" THEN JStr(<<>>) ELSE j.optimizedResume

\* line 782 raises inside _dict_to_resume_text: caught at line 840
EditTreeRaises ==
    /\ CanEdit
    /\ keywords' = ExtractKeywords(selected_keywords)
    /\ \E j \in EditJsonValues :
          /\ j.t = "object"
          /\ DictToTextRaises(GetOptimizedResume(j))
          /\ edit_response' = [kind |-> "json", json |-> j]
    /\ GReturn("exception", Failure("Generation failed"))
    /\ UNCHANGED <<optimized_text, optimized_file>>

\* lines 779-789: optimized_text before cleaning, as a JSON value
ConvertedText(j) ==
    LET v == GetOptimizedResume(j)
    IN  IF v.t \in {"dict", "list"} THEN JStr(_dict_to_resume_text(v)) ELSE v

\* lines 784-786: nothing usable under optimizedResume
EditNoText ==
    /\ CanEdit
    /\ keywords' = ExtractKeywords(selected_keywords)
    /\ \E j \in EditJsonValues :
          /\ j.t = "object"
          /\ ~DictToTextRaises(GetOptimizedResume(j))
          /\ ~Truthy(ConvertedText(j))
          /\ edit_response' = [kind |-> "json", json |-> j]
          /\ optimized_text' = Str(ConvertedText(j))
    /\ GReturn("no_text", Failure("No resume generated."))
    /\ UNCHANGED optimized_file

\* result.get(key, default) for the fields passed through to the caller
FieldOr(j, value, default) == IF value.t = "absent" THEN default ELSE value.v

\* lines 788-838: the text is cleaned, measured, verified, saved and returned
EditGenerated ==
    /\ CanEdit
    /\ \E j \in EditJsonValues :
          /\ j.t = "object"
          /\ ~DictToTextRaises(GetOptimizedResume(j))
          /\ Truthy(ConvertedText(j))
          /\ LET kws == ExtractKeywords(selected_keywords)
                 text == clean_encoding_artifacts(Str(ConvertedText(j)))
                 keyword_check == verify_keyword_integration(text, kws)
             IN  /\ keywords' = kws
                 /\ edit_response' = [kind |-> "json", json |-> j]
                 /\ optimized_text' = text
                 /\ optimized_file' = text
                 /\ GReturn("generated",
                       [success |-> TRUE,
                        message |-> "New resume generated successfully",
                        optimizedResume |-> text,
                        resumeSections |-> FieldOr(j, j.resumeSections, <<>>),
                        keywordIntegration |-> <<>>,
                        keywordVerification |-> keyword_check,
                        atsScore |-> FieldOr(j, j.atsScore, 0),
                        tips |-> <<>>,
                        metadata |-> [keywordsRequested |-> Len(kws),
                                      keywordsIntegrated |-> Len(keyword_check.integrated)]])

GNext ==
    \/ GenerateNoKeywords
    \/ GenerateNoApiKey
    \/ GenerateNoValidKeywords
    \/ EditRaises
    \/ EditInvalidJson
    \/ EditNotObject
    \/ EditTreeRaises
    \/ EditNoText
    \/ EditGenerated

SpecGenerate == GInit /\ [][GNext]_vars

\* ------------------------------------------------------------------------
\* Properties of the reconstructor (SpecGenerate)
\* ------------------------------------------------------------------------

\* number of lines of text that hold a character other than whitespace
NonBlankLineCount(text) ==
    Cardinality({i \in 1..Len(split(text)) : Len(strip(split(text)[i])) > 0})

\* C1: when the cleaned edit has fewer non-blank lines than 80% of the
\* original's non-blank lines, the returned optimizedResume is the cleaned
\* original text and not the truncated edit.
C1_TruncatedEditFallsBack ==
    (/\ gpc = "done"
     /\ gpath = "generated"
     /\ 10 * NonBlankLineCount(optimized_text)
          < 8 * NonBlankLineCount(original_resume_text)) =>
        gresult.optimizedResume = clean_encoding_artifacts(original_resume_text)

\* C2: success is false only when the keyword list is empty, the original
\* text is empty or the credentials are missing; when the edit capability
\* raises or returns invalid JSON the result is success:true with the cleaned
\* original text as optimizedResume.
C2_FailureOnlyWithoutInput ==
    gpc = "done" =>
        /\ ~gresult.success =>
              \/ Len(selected_keywords) = 0
              \/ Len(original_resume_text) = 0
              \/ ~api_key
        /\ edit_response.kind \in {"raises", "invalid_json"} =>
              /\ gresult.success
              /\ gresult.optimizedResume = clean_encoding_artifacts(original_resume_text)

\* C8: the resumeSections returned with a generated resume are the markers
\* detected in the returned optimizedResume.
C8_SectionsRecomputed ==
    (gpc = "done" /\ gresult.success) =>
        gresult.resumeSections = detect_resume_sections(gresult.optimizedResume)


\* ------------------------------------------------------------------------
\* analyze_resume_against_job
\* ------------------------------------------------------------------------

\* longest list of phrases in the list fields of job_data
MaxJobPhrases == 3

J_Python == <<"P", "y", "t", "h", "o", "n">>

J_PythonPadded == <<" ", "P", "y", "t", "h", "o", "n", " ">>

J_MachineLearning == <<"M", "a", "c", "h", "i", "n", "e", " ", "L", "e", "a", "r", "n", "i", "n", "g">>

J_PythonDeveloper == <<"P", "y", "t", "h", "o", "n", " ", "D", "e", "v", "e", "l", "o", "p", "e", "r">>

J_Blank == <<" ">>

\* phrases found in the fields skills, requirements, technologies, tools and
\* qualifications of job_data
JobPhrasePool == {J_Python, J_PythonPadded, J_MachineLearning, J_PythonDeveloper, J_Blank}

R_Experienced == <<"E", "x", "p", "e", "r", "i", "e", "n", "c", "e", "d", " ", "i", "n", " ", "P", "y", "t", "h", "o", "n", " ", "a", "n", "d", " ", "S", "Q", "L">>

R_Learning == <<"l", "e", "a", "r", "n", "i", "n", "g", " ", "S", "Q", "L", " ", "o", "n", " ", "a", " ", "m", "a", "c", "h", "i", "n", "e">>

ResumeTexts == {R_Experienced, R_Learning}

AInit ==
    /\ api_key \in BOOLEAN
    /\ XIdle
    /\ FIdle
    /\ GIdle
    /\ CIdle
    /\ OIdle
    /\ RIdle
    /\ EIdle
    /\ apc = "start"
    /\ resume_text \in ResumeTexts
    /\ job_data \in SeqsUpTo(JobPhrasePool, MaxJobPhrases)
    /\ job_phrases = <<>>
    /\ matching = <<>>
    /\ aresult = [kind |-> "none"]

\* line 479: set([p.strip() for p in job_phrases if p.strip()])
CleanedPhrases(raw) ==
    {strip(raw[i]) : i \in {k \in 1..Len(raw) : Len(strip(raw[k])) > 0}}

\* line 479: list(set(...)) lists the set in an order the code does not fix
Listings(S) ==
    {l \in [1..Cardinality(S) -> S] : \A i, j \in 1..Cardinality(S) : i # j => l[i] # l[j]}

\* the test without its second operand: only the whole phrase is looked for
IsMatching_WholePhrase(phrase, resume_lower) ==
    Contains(resume_lower, lower(phrase))

\* line 498: the test that puts a phrase into matching
IsMatching(phrase, resume_lower) ==
    LET phrase_lower == lower(phrase)
        tokens == words(phrase_lower)
    IN  \/ Contains(resume_lower, phrase_lower)
        \/ \E i \in 1..Len(tokens) :
              Len(tokens[i]) > 3 /\ Contains(resume_lower, tokens[i])

\* the score cut off after the first decimal instead of rounded
MatchScore_RoundedDown(matching_count, total) ==
    (1000 * matching_count) \div (IF total > 1 THEN total ELSE 1)

\* line 511 and line 515: round(len(matching) / max(len(job_phrases), 1) * 100, 1),
\* in tenths of a percent
MatchScore(matching_count, total) ==
    RatePerMille(matching_count, IF total > 1 THEN total ELSE 1)

\* lines 481-488: no phrase is left after cleaning
AnalyzeNoPhrases ==
    /\ apc = "start"
    /\ CleanedPhrases(job_data) = {}
    /\ aresult' = [success |-> TRUE,
                   matchScore |-> 0,
                   missingPhrases |-> <<>>,
                   matchingPhrases |-> <<>>,
                   actionableKeywords |-> <<>>]
    /\ apc' = "done"
    /\ UNCHANGED <<resume_text, job_data, job_phrases, matching>>
    /\ UNCHANGED <<api_key, xvars, fvars, gvars, cvars, ovars, rvars, evars>>

\* lines 473-508: the phrases are cleaned and categorized, and the missing
\* ones are handed to filter_keywords_with_ai
Categorize ==
    /\ apc = "start"
    /\ CleanedPhrases(job_data) # {}
    /\ \E l \in Listings(CleanedPhrases(job_data)) :
          LET resume_lower == lower(resume_text)
          IN  /\ job_phrases' = l
              /\ matching' = SelectSeq(l, LAMBDA p : IsMatching(p, resume_lower))
              /\ missing_phrases' = SelectSeq(l, LAMBDA p : ~IsMatching(p, resume_lower))
    /\ fpc' = "start"
    /\ apc' = "filter"
    /\ UNCHANGED <<resume_text, job_data, aresult>>
    /\ UNCHANGED <<classify_response, fpath, fresult>>
    /\ UNCHANGED <<api_key, xvars, gvars, cvars, ovars, rvars, evars>>

\* lines 510-520: filter_keywords_with_ai has returned
AnalyzeReturn ==
    /\ apc = "filter"
    /\ fpc = "done"
    /\ aresult' = [success |-> TRUE,
                   matchScore |-> MatchScore(Len(matching), Len(job_phrases)),
                   missingPhrases |-> missing_phrases,
                   matchingPhrases |-> matching,
                   actionableKeywords |-> fresult.actionableKeywords,
                   totalKeywords |-> Len(job_phrases)]
    /\ apc' = "done"
    /\ UNCHANGED <<resume_text, job_data, job_phrases, matching>>
    /\ UNCHANGED <<api_key, xvars, fvars, gvars, cvars, ovars, rvars, evars>>

ANext ==
    \/ AnalyzeNoPhrases
    \/ Categorize
    \/ FilterNoPhrases
    \/ FilterNoApiKey
    \/ ClassifyRaises
    \/ ClassifyInvalidJson
    \/ ClassifyNotObject
    \/ ClassifyNotList
    \/ ClassifyAccepted
    \/ AnalyzeReturn

SpecAnalyze == AInit /\ [][ANext]_vars


\* ------------------------------------------------------------------------
\* Properties of the keyword matcher (SpecAnalyze)
\* ------------------------------------------------------------------------

\* number of positions of the list l that hold p
Occurrences(l, p) == Cardinality({i \in 1..Len(l) : l[i] = p})

\* C11: every trimmed, de-duplicated job phrase is in exactly one of
\* matchingPhrases and missingPhrases; it is matching if and only if its
\* lowercase form is a substring of the lowercase resume text or one of its
\* whitespace-split tokens longer than 3 characters is; the resume
\* "Experienced in Python and SQL" with the phrases Python and Machine
\* Learning gives matching [Python] and missing [Machine Learning].
C11_KeywordMatcher ==
    (apc = "done" /\ CleanedPhrases(job_data) # {}) =>
        LET rl == lower(resume_text)
            m == aresult.matchingPhrases
            x == aresult.missingPhrases
            Rule(p) ==
                \/ \E a \in 1..(Len(rl) + 1) : MatchAt(rl, lower(p), a)
                \/ \E a, b \in 1..Len(p) :
                      /\ b - a + 1 > 3
                      /\ \A k \in a..b : p[k] \notin SpaceChars
                      /\ a = 1 \/ p[a - 1] \in SpaceChars
                      /\ b = Len(p) \/ p[b + 1] \in SpaceChars
                      /\ Contains(rl, lower(Slice(p, a, b)))
        IN  /\ \A p \in CleanedPhrases(job_data) :
                  Occurrences(m, p) + Occurrences(x, p) = 1
            /\ \A i \in 1..Len(m) : m[i] \in CleanedPhrases(job_data) /\ Rule(m[i])
            /\ \A i \in 1..Len(x) : x[i] \in CleanedPhrases(job_data) /\ ~Rule(x[i])
            /\ (resume_text = R_Experienced
                  /\ CleanedPhrases(job_data) = {J_Python, J_MachineLearning}) =>
                  (m = <<J_Python>> /\ x = <<J_MachineLearning>>)

\* the example has been analysed, and a phrase has matched by one token only
C11_Witness ==
    /\ apc = "done"
    /\ resume_text = R_Experienced
    /\ job_data = <<J_PythonDeveloper, J_PythonPadded, J_MachineLearning>>
    /\ Len(aresult.matchingPhrases) = 2
    /\ aresult.missingPhrases = <<J_MachineLearning>>

\* C12: matchScore is matching_count / total_phrase_count * 100 rounded to
\* one decimal (here in tenths of a percent), total_phrase_count being the
\* number of trimmed, de-duplicated phrases; it is 0 when there is no phrase
\* and always lies between 0 and 100.
C12_MatchScore ==
    apc = "done" =>
        LET n == Cardinality(CleanedPhrases(job_data))
            m == Len(aresult.matchingPhrases)
            score == aresult.matchScore
        IN  /\ n = 0 => score = 0
            /\ n > 0 => /\ 2 * (n * score - 1000 * m) <= n
                        /\ 2 * (1000 * m - n * score) <= n
            /\ score >= 0
            /\ score <= 1000

\* two of three phrases match: 66.666... is reported as 66.7
C12_Witness ==
    /\ apc = "done"
    /\ Cardinality(CleanedPhrases(job_data)) = 3
    /\ Len(aresult.matchingPhrases) = 2
    /\ aresult.matchScore = 667


\* ------------------------------------------------------------------------
\* Properties of verify_keyword_integration (SpecGenerate)
\* ------------------------------------------------------------------------

\* the elements of the list l
Elements(l) == {l[i] : i \in 1..Len(l)}

\* C13: every requested keyword is marked integrated if and only if its
\* lowercase form is a substring of the lowercase final text, or it has more
\* than one word and every one of its words occurs in the final text;
\* otherwise it is marked missing.
C13_VerificationRule ==
    (gpc = "done" /\ gpath = "generated") =>
        LET final == lower(gresult.optimizedResume)
            v == gresult.keywordVerification
            Rule(k) ==
                \/ \E a \in 1..(Len(final) + 1) : MatchAt(final, lower(k), a)
                \/ /\ Len(words(k)) > 1
                   /\ \A i \in 1..Len(words(k)) : Contains(final, lower(words(k)[i]))
        IN  \A i \in 1..Len(keywords) :
                /\ keywords[i] \in Elements(v.integrated) <=> Rule(keywords[i])
                /\ keywords[i] \in Elements(v.missing) <=> ~Rule(keywords[i])

\* C14: integrated and missing are disjoint and together hold every requested
\* keyword, and integrationRate is integrated_count / requested_count * 100
\* rounded to one decimal (here in tenths of a percent), 0 when nothing was
\* requested, always between 0 and 100.
C14_VerificationTotals ==
    (gpc = "done" /\ gpath = "generated") =>
        LET v == gresult.keywordVerification
            n == Len(keywords)
            rate == v.integrationRate
        IN  /\ Elements(v.integrated) \cap Elements(v.missing) = {}
            /\ Elements(v.integrated) \cup Elements(v.missing) = Elements(keywords)
            /\ n = 0 => rate = 0
            /\ n > 0 => /\ 2 * (n * rate - 1000 * Len(v.integrated)) <= n
                        /\ 2 * (1000 * Len(v.integrated) - n * rate) <= n
            /\ rate >= 0
            /\ rate <= 1000


\* ------------------------------------------------------------------------
\* The section helpers extract_experience_bullets and
\* count_bullets_per_section
\* ------------------------------------------------------------------------

\* re.match(r'^\s*<bullet>\s+', line)
IsBulletLine(line) ==
    LET k == SpaceRun(line, 1)
    IN  /\ k + 1 <= Len(line)
        /\ line[k + 1] = BULLET
        /\ SpaceRun(line, k + 2) >= 1

\* the positions (1-based) of lines[start_line:end_line] that hold a bullet
BulletPositions(lines, start_line, end_line) ==
    {i \in (start_line + 1)..end_line : i <= Len(lines) /\ IsBulletLine(lines[i])}

\* lines 397-398: where the section of the i-th marker ends
SectionEnd(sections, i, lines) ==
    IF i + 1 <= Len(sections) THEN sections[i + 1].lineNumber ELSE Len(lines)

\* the dictionary bullet_counts: one key per section type; a later marker of
\* the same type overwrites the count of an earlier one (line 406)
count_bullets_per_section(t) ==
    LET sections == detect_resume_sections(t)
        lines == split(t)
        types == {sections[i].type : i \in 1..Len(sections)}
        Last(ty) == CHOOSE i \in 1..Len(sections) :
                        /\ sections[i].type = ty
                        /\ \A j \in 1..Len(sections) : sections[j].type = ty => j <= i
    IN  [ty \in types |->
            Cardinality(BulletPositions(lines, sections[Last(ty)].lineNumber,
                                        SectionEnd(sections, Last(ty), lines)))]

\* the bullets of lines[start_line:end_line], stripped, in order
RECURSIVE StrippedBullets(_, _, _)
StrippedBullets(lines, i, end_line) ==
    IF i > end_line \/ i > Len(lines) THEN <<>>
    ELSE (IF IsBulletLine(lines[i]) THEN <<strip(lines[i])>> ELSE <<>>)
           \o StrippedBullets(lines, i + 1, end_line)

extract_experience_bullets(t) ==
    LET sections == detect_resume_sections(t)
        lines == split(t)
        exp == {i \in 1..Len(sections) : sections[i].type = "experience"}
    IN  IF exp = {} THEN <<>>
        ELSE LET start_line == sections[Min(exp)].lineNumber
                 later == {i \in 1..Len(sections) : sections[i].lineNumber > start_line}
                 end_line == IF later = {} THEN Len(lines)
                             ELSE sections[Min(later)].lineNumber
             IN  StrippedBullets(lines, start_line + 1, end_line)

\* ------------------------------------------------------------------------
\* Calls of the text functions
\* ------------------------------------------------------------------------

\* longest text, in lines
MaxLines == 3

\* the glyphs named as bullet glyphs: dash, asterisk, filled and open circle,
\* arrow, and misread punctuation
TestedGlyphs == {"-", "*", "U+25CF", "U+25CB", "U+25BA", "U+00A1", "U+00A7"}

GlyphLine(g) == <<" ", " ", g, " ", "T", "e", "x", "t">>

L_EDUCATION == <<"E", "D", "U", "C", "A", "T", "I", "O", "N">>

L_SomeBody == <<"s", "o", "m", "e", " ", "b", "o", "d", "y">>

L_SKILLS == <<"S", "K", "I", "L", "L", "S">>

L_WorkHistory == <<" ", "W", "o", "r", "k", " ", "H", "i", "s", "t", "o", "r", "y">>

L_SkillsUsed == <<"S", "k", "i", "l", "l", "s", " ", "u", "s", "e", "d">>

L_Bullet == <<BULLET, " ", "a">>

L_Dash == <<" ", " ", "-", " ", " ", "b", " ">>

L_LetterO == <<"o", " ", "A", "p", "p", "l", "e">>

LinePool == {L_EDUCATION, L_SomeBody, L_SKILLS, L_WorkHistory, L_SkillsUsed,
             L_Bullet, L_Dash, L_LetterO}

L_Experience == <<"E", "x", "p", "e", "r", "i", "e", "n", "c", "e">>

L_SUMMARY == <<"S", "U", "M", "M", "A", "R", "Y">>

L_ProfessionalSummary == <<"P", "r", "o", "f", "e", "s", "s", "i", "o", "n", "a", "l", " ", "S", "u", "m", "m", "a", "r", "y">>

L_Objective == <<"o", "b", "j", "e", "c", "t", "i", "v", "e">>

\* one-line texts: a tested glyph before a word, or a header synonym
SingleLines ==
    {GlyphLine(g) : g \in TestedGlyphs}
      \cup {L_Experience, L_SUMMARY, L_ProfessionalSummary, L_Objective}

Texts == {join(l) : l \in SeqsUpTo(LinePool, MaxLines)} \cup SingleLines

Value(x) == [kind |-> "value", value |-> x]

CInit ==
    /\ api_key \in BOOLEAN
    /\ XIdle
    /\ FIdle
    /\ GIdle
    /\ AIdle
    /\ called = "none"
    /\ arg_text \in Texts
    /\ arg_resume_dict = JNull
    /\ returned = [kind |-> "none"]
    /\ OIdle
    /\ RIdle
    /\ EIdle

\* the call returns value
Return(function, value) ==
    /\ called' = function
    /\ returned' = value
    /\ UNCHANGED <<arg_text, arg_resume_dict>>
    /\ UNCHANGED <<api_key, xvars, fvars, gvars, avars, ovars, rvars, evars>>

CallNormalize ==
    /\ called = "none"
    /\ Return("normalize_bullet_points", Value(normalize_bullet_points(arg_text)))

CallDetect ==
    /\ called = "none"
    /\ Return("detect_resume_sections", Value(detect_resume_sections(arg_text)))

CallCountPerSection ==
    /\ called = "none"
    /\ Return("count_bullets_per_section", Value(count_bullets_per_section(arg_text)))

CallExtractBullets ==
    /\ called = "none"
    /\ Return("extract_experience_bullets", Value(extract_experience_bullets(arg_text)))

CNext ==
    \/ CallNormalize
    \/ CallDetect
    \/ CallCountPerSection
    \/ CallExtractBullets

SpecText == CInit /\ [][CNext]_vars


\* ------------------------------------------------------------------------
\* Properties of the text functions (SpecText)
\* ------------------------------------------------------------------------

\* C15: normalize_bullet_points is idempotent: normalizing its own result
\* changes nothing.
C15_NormalizeIdempotent ==
    called = "normalize_bullet_points" =>
        normalize_bullet_points(returned.value) = returned.value

\* a text with a dash bullet, surplus spacing and a trailing space has been
\* normalized, and the result differs from the input
C15_Witness ==
    /\ called = "normalize_bullet_points"
    /\ arg_text = join(<<L_Dash, L_LetterO>>)
    /\ returned.value = join(<<<<" ", " ", BULLET, " ", "b">>,
                               <<BULLET, " ", "A", "p", "p", "l", "e">>>>)

\* C16: for every tested glyph g the line "  g Text" is normalized to
\* "  <bullet> Text".
C16_TestedGlyphsNormalized ==
    (called = "normalize_bullet_points"
        /\ \E g \in TestedGlyphs : arg_text = GlyphLine(g)) =>
        returned.value = GlyphLine(BULLET)

\* the header phrases of all rules
RecognizedHeaders == UNION {section_patterns[n].phrases : n \in 1..Len(section_patterns)}

\* C17: detect_resume_sections returns exactly one marker for every line whose
\* trimmed, upper-cased text equals a recognized header phrase and none for
\* any other line; markers carry the zero-based line index and are strictly
\* increasing in it; the lines EDUCATION, some body, SKILLS give education at
\* 0 and skills at 2.
C17_AnchoredHeaders ==
    called = "detect_resume_sections" =>
        LET lines == split(arg_text)
            m == returned.value
        IN  /\ \A i \in 1..Len(lines) :
                  Cardinality({j \in 1..Len(m) : m[j].lineNumber = i - 1})
                    = IF upper(strip(lines[i])) \in RecognizedHeaders THEN 1 ELSE 0
            /\ \A j \in 1..Len(m) : m[j].lineNumber \in 0..(Len(lines) - 1)
            /\ \A j \in 1..(Len(m) - 1) : m[j].lineNumber < m[j + 1].lineNumber
            /\ arg_text = join(<<L_EDUCATION, L_SomeBody, L_SKILLS>>) =>
                  [j \in 1..Len(m) |-> <<m[j].type, m[j].lineNumber>>]
                    = << <<"education", 0>>, <<"skills", 2>> >>

\* a header, a body line that holds a header word, and a second header have
\* been scanned
C17_Witness ==
    /\ called = "detect_resume_sections"
    /\ arg_text = join(<<L_EDUCATION, L_SkillsUsed, L_SKILLS>>)
    /\ Len(returned.value) = 2
    /\ returned.value[2].lineNumber = 2

\* C18: a line that holds only EXPERIENCE or WORK HISTORY, in any casing, is
\* detected as a marker of type experience; SUMMARY, PROFESSIONAL SUMMARY and
\* OBJECTIVE are detected as type summary.
C18_HeaderSynonyms ==
    (called = "detect_resume_sections" /\ Len(split(arg_text)) = 1) =>
        LET header == upper(strip(arg_text))
            types == [j \in 1..Len(returned.value) |-> returned.value[j].type]
        IN  /\ header \in {upper(L_Experience), upper(strip(L_WorkHistory))} =>
                  types = <<"experience">>
            /\ header \in {L_SUMMARY, upper(L_ProfessionalSummary), upper(L_Objective)} =>
                  types = <<"summary">>

\* C19: for every detected marker, count_bullets_per_section reports the
\* number of bullet lines between that marker's line and the next marker's
\* line (the end of the text for the last marker).
C19_BulletsPerMarker ==
    called = "count_bullets_per_section" =>
        LET lines == split(arg_text)
            m == detect_resume_sections(arg_text)
            Next(j) == IF j < Len(m) THEN m[j + 1].lineNumber ELSE Len(lines)
        IN  \A j \in 1..Len(m) :
                /\ m[j].type \in DOMAIN returned.value
                /\ returned.value[m[j].type]
                     = Cardinality({i \in 1..Len(lines) :
                                      /\ i - 1 > m[j].lineNumber
                                      /\ i - 1 < Next(j)
                                      /\ IsBulletLine(lines[i])})


\* ------------------------------------------------------------------------
\* Calls of _dict_to_resume_text
\* ------------------------------------------------------------------------

\* largest number of keys of a tree
MaxTreeKeys == 3

D_JaneDoe == <<"J", "a", "n", "e", " ", "D", "o", "e">>

D_Mail == <<"j", "@", "x", ".", "i", "o">>

\* the key/value pairs a tree may hold
TreeEntries ==
    { <<K_name, JStr(D_JaneDoe)>>,
      <<K_contact, JDict(<< <<<<"e", "m", "a", "i", "l">>, JStr(D_Mail)>> >>)>>,
      <<K_contact, JStr(D_Mail)>>,
      <<K_education, JDict(<< <<K_degree, JStr(<<"B", "S">>)>> >>)>>,
      <<skills_keys[1], JDict(<< <<<<"l", "a", "n", "g", "u", "a", "g", "e", "s">>, JList(<<JStr(<<"S", "Q", "L">>)>>)>> >>)>>,
      <<skills_keys[2], JStr(<<"G", "o">>)>>,
      <<experience_keys[2], JList(<<JDict(<< <<K_title, JStr(<<"D", "e", "v">>)>> >>)>>)>>,
      <<K_projects, JList(<<JDict(<< <<K_title, JStr(<<"A", "p", "p">>)>> >>)>>)>>,
      <<K_leadership, JList(<<JStr(<<"C", "l", "u", "b">>)>>)>>,
      <<K_certifications, JList(<<JStr(<<"A", "W", "S">>)>>)>>,
      <<K_education, JDict(<< <<K_institution, JStr(<<"X">>)>>, <<K_location, JStr(<<"Y">>)>> >>)>>,
      <<K_education, JDict(<<>>)>>,
      <<skills_keys[1], JDict(<<>>)>>,
      <<experience_keys[2], JList(<<>>)>>,
      <<K_projects, JList(<<>>)>>,
      <<K_leadership, JList(<<>>)>>,
      <<K_certifications, JList(<<>>)>> }

\* the trees: the keys of a dictionary are distinct and come in any order
Trees ==
    {JDict(kv) : kv \in {l \in SeqsUpTo(TreeEntries, MaxTreeKeys) :
                            \A i, j \in 1..Len(l) : i # j => l[i][1] # l[j][1]}}

DInit ==
    /\ api_key \in BOOLEAN
    /\ XIdle
    /\ FIdle
    /\ GIdle
    /\ AIdle
    /\ called = "none"
    /\ arg_text = <<>>
    /\ arg_resume_dict \in Trees
    /\ returned = [kind |-> "none"]
    /\ OIdle
    /\ RIdle
    /\ EIdle

\* lines 926-1091: the text is built and returned
CallDictToText ==
    /\ called = "none"
    /\ ~DictToTextRaises(arg_resume_dict)
    /\ Return("_dict_to_resume_text", Value(_dict_to_resume_text(arg_resume_dict)))

\* an operation on a value of the wrong type raises out of the function
CallDictToTextRaises ==
    /\ called = "none"
    /\ DictToTextRaises(arg_resume_dict)
    /\ Return("_dict_to_resume_text", [kind |-> "raised"])

DNext ==
    \/ CallDictToText
    \/ CallDictToTextRaises

SpecSerialize == DInit /\ [][DNext]_vars

\* ------------------------------------------------------------------------
\* Properties of _dict_to_resume_text (SpecSerialize)
\* ------------------------------------------------------------------------

\* the section headers in the claimed order
FixedHeaders ==
    << <<"E", "D", "U", "C", "A", "T", "I", "O", "N">>,
       <<"T", "E", "C", "H", "N", "I", "C", "A", "L", " ", "S", "K", "I", "L", "L", "S">>,
       <<"P", "R", "O", "F", "E", "S", "S", "I", "O", "N", "A", "L", " ", "E", "X", "P", "E", "R", "I", "E", "N", "C", "E", "S">>,
       <<"T", "E", "C", "H", "N", "I", "C", "A", "L", " ", "P", "R", "O", "J", "E", "C", "T", "S">>,
       <<"L", "E", "A", "D", "E", "R", "S", "H", "I", "P">>,
       <<"C", "E", "R", "T", "I", "F", "I", "C", "A", "T", "I", "O", "N", "S">> >>

\* the place of a header line in the claimed order
HeaderRank(line) == CHOOSE n \in 1..Len(FixedHeaders) : FixedHeaders[n] = line

\* the keys under which a tree holds the block of the n-th header
HeaderKeys(n) ==
    CASE n = 1 -> {K_education}
      [] n = 2 -> Elements(skills_keys)
      [] n = 3 -> Elements(experience_keys)
      [] n = 4 -> {K_technicalProjects, K_projects}
      [] n = 5 -> {K_leadership}
      [] n = 6 -> {K_certifications}

\* C20: whatever the order of the keys of the tree, the text begins with the
\* name line and the contact line, and the section headers appear at most
\* once each, in the order EDUCATION, TECHNICAL SKILLS, PROFESSIONAL
\* EXPERIENCES, TECHNICAL PROJECTS, LEADERSHIP, CERTIFICATIONS.
C20_FixedSectionOrder ==
    (called = "_dict_to_resume_text" /\ returned.kind = "value") =>
        LET lines == split(returned.value)
            headers == SelectSeq(lines, LAMBDA l : l \in Elements(FixedHeaders))
            first == IF HasKey(arg_resume_dict, K_name) THEN <<D_JaneDoe>> ELSE <<>>
            second == IF HasKey(arg_resume_dict, K_contact) THEN <<D_Mail>> ELSE <<>>
            opening == first \o second
        IN  /\ \A i \in 1..(Len(headers) - 1) :
                  HeaderRank(headers[i]) < HeaderRank(headers[i + 1])
            /\ \A n \in 1..Len(FixedHeaders) :
                  (FixedHeaders[n] \in Elements(headers))
                    => (\E k \in HeaderKeys(n) : HasKey(arg_resume_dict, k))
            /\ Len(lines) >= Len(opening)
            /\ Slice(lines, 1, Len(opening)) = opening
            /\ \A i \in 1..Len(opening) : lines[i] \notin Elements(FixedHeaders)

\* a tree whose keys come in the reverse of the output order has been written
C20_Witness ==
    /\ called = "_dict_to_resume_text"
    /\ returned.kind = "value"
    /\ Len(arg_resume_dict.v) = 3
    /\ arg_resume_dict.v[1][1] = K_certifications
    /\ arg_resume_dict.v[2][1] = K_education
    /\ arg_resume_dict.v[3][1] = K_name
    /\ split(returned.value)[1] = D_JaneDoe

\* the aliases of the n-th section, in the order the code tries them
SectionKeys(n) ==
    CASE n = 1 -> <<K_education>>
      [] n = 2 -> skills_keys
      [] n = 3 -> experience_keys
      [] n = 4 -> <<K_technicalProjects, K_projects>>
      [] n = 5 -> <<K_leadership>>
      [] n = 6 -> <<K_certifications>>

\* the n-th section has no source: no alias is a key of the tree, or the
\* value under the alias the code reads is empty
SectionMissing(d, n) ==
    \/ FirstKey(d, SectionKeys(n)) = 0
    \/ ~Truthy(Item(d, SectionKeys(n)[FirstKey(d, SectionKeys(n))]))

\* C21: a section whose source key is absent or whose value is empty
\* contributes no header line to the text, for each of the six sections.
C21_EmptySectionOmitted ==
    (called = "_dict_to_resume_text" /\ returned.kind = "value") =>
        \A n \in 1..Len(FixedHeaders) :
            SectionMissing(arg_resume_dict, n)
              => FixedHeaders[n] \notin Elements(split(returned.value))

\* ------------------------------------------------------------------------
\* Calls of clean_encoding_artifacts
\* ------------------------------------------------------------------------

\* largest number of fragments of a text
MaxFragments == 3

\* the pieces a text is put together from: header words, separators, a
\* letter, a bullet and a corrupt glyph sequence
Fragments ==
    { section_headers[1], W_TECHNICAL, W_PROJECTS, W_PROFESSIONAL, W_EXPERIENCES,
      <<" ">>, <<NL>>, <<"x">>, <<BULLET>>, <<"%", "U+00CF">> }

RECURSIVE Concat(_)
Concat(ls) == IF Len(ls) = 0 THEN <<>> ELSE ls[1] \o Concat(Tail(ls))

FragmentTexts == {Concat(l) : l \in SeqsUpTo(Fragments, MaxFragments)}

KInit ==
    /\ api_key \in BOOLEAN
    /\ XIdle
    /\ FIdle
    /\ GIdle
    /\ AIdle
    /\ called = "none"
    /\ arg_text \in FragmentTexts
    /\ arg_resume_dict = JNull
    /\ returned = [kind |-> "none"]
    /\ OIdle
    /\ RIdle
    /\ EIdle

\* lines 243-322
CallClean ==
    /\ called = "none"
    /\ Return("clean_encoding_artifacts", Value(clean_encoding_artifacts(arg_text)))

\* lines 236-240, on the same texts
CallCountBullets ==
    /\ called = "none"
    /\ Return("count_bullet_points", Value(count_bullet_points(arg_text)))

KNext ==
    \/ CallClean
    \/ CallCountBullets

SpecClean == KInit /\ [][KNext]_vars

\* ------------------------------------------------------------------------
\* Properties of clean_encoding_artifacts (SpecClean)
\* ------------------------------------------------------------------------

\* the text holds none of the characters the cleaner removes or repairs
GlyphFree(t) == \A i \in 1..Len(t) : t[i] \notin CorruptGlyphs \cup {"U+00E2", "U+20AC"}

\* C22: on a text free of the corrupt glyph sequences, cleaning the cleaned
\* text gives the cleaned text again.
C22_CleanIdempotent ==
    (called = "clean_encoding_artifacts" /\ GlyphFree(arg_text)) =>
        clean_encoding_artifacts(returned.value) = returned.value

\* the positions of the text where the phrase occurs
OccurrencesIn(t, phrase) == {p \in 1..Len(t) : MatchAt(t, phrase, p)}

\* C23: in the cleaned text every occurrence of a section header keyword is
\* at the start of a line.
C23_HeadersStartLines ==
    (called = "clean_encoding_artifacts") =>
        \A n \in 1..Len(section_headers) :
            \A p \in OccurrencesIn(returned.value, section_headers[n]) :
                p = 1 \/ returned.value[p - 1] = NL

\* the text holds first, whitespace, second
HoldsSplitHeader(t, first, second) ==
    \E p \in 1..Len(t) : SplitHeaderMatchEnd(t, first, second, p) > 0

\* C28: a text holding TECHNICAL, whitespace, PROJECTS is cleaned to a text
\* holding TECHNICAL PROJECTS, and likewise for PROFESSIONAL EXPERIENCES.
C28_HeaderKeptContiguous ==
    (called = "clean_encoding_artifacts") =>
        /\ HoldsSplitHeader(arg_text, W_TECHNICAL, W_PROJECTS)
             => Contains(returned.value, W_TECHNICAL \o <<" ">> \o W_PROJECTS)
        /\ HoldsSplitHeader(arg_text, W_PROFESSIONAL, W_EXPERIENCES)
             => Contains(returned.value, W_PROFESSIONAL \o <<" ">> \o W_EXPERIENCES)

\* ------------------------------------------------------------------------
\* Further properties of the reconstructor (SpecGenerate)
\* ------------------------------------------------------------------------

\* C24: a request with an empty keyword set or an empty resume text is
\* rejected before the edit capability is invoked.
C24_InvalidInputRejectedFirst ==
    (Len(selected_keywords) = 0 \/ Len(strip(original_resume_text)) = 0) =>
        /\ edit_response.kind = "none"
        /\ gpc = "done" => ~gresult.success

\* C29: once the inputs pass validation, every outcome of the edit
\* capability ends in a returned result with a success flag and a message,
\* and a result whose success flag is false carries the empty string as
\* optimizedResume.
C29_NeverPropagates ==
    (gpc = "done" /\ edit_response.kind # "none") =>
        /\ {"success", "message", "optimizedResume"} \subseteq DOMAIN gresult
        /\ gresult.success \in BOOLEAN
        /\ ~gresult.success => gresult.optimizedResume = <<>>
        /\ gresult.success => gpath = "generated"

\* the conversion of the structured answer raised and a failure was returned
C29_Witness ==
    /\ gpc = "done"
    /\ edit_response.kind = "json"
    /\ edit_response.json.t = "object"
    /\ DictToTextRaises(GetOptimizedResume(edit_response.json))
    /\ ~gresult.success
    /\ gresult.optimizedResume = <<>>

\* ------------------------------------------------------------------------
\* Further properties of the analysis (SpecAnalyze)
\* ------------------------------------------------------------------------

\* C27: on every path, each keyword of the returned actionableKeywords is
\* one of the missing phrases, never a matching phrase and never a phrase
\* that the job data does not hold.
C27_ActionableAreMissing ==
    apc = "done" =>
        \A i \in 1..Len(aresult.actionableKeywords) :
            aresult.actionableKeywords[i].keyword \in Elements(aresult.missingPhrases)

\* ------------------------------------------------------------------------
\* extract_text_with_ocr, step by step
\* ------------------------------------------------------------------------

\* largest number of pages of a scanned document
MaxOcrPages == 6

ScannedDocuments == [pages : {<<>>}, images : SeqsUpTo(ImageTexts, MaxOcrPages)]

OInit ==
    /\ api_key = TRUE
    /\ xpc = "idle"
    /\ pdf_buffer \in ScannedDocuments
    /\ extracted_text = <<>>
    /\ formatting_info = InitialFormatting
    /\ ocr_text = <<>>
    /\ primary_text = <<>>
    /\ primary_raised = FALSE
    /\ ocr_calls = 0
    /\ xresult = NoResult
    /\ base_file = NoFile
    /\ FIdle
    /\ GIdle
    /\ AIdle
    /\ CIdle
    /\ opc = "render"
    /\ rendered_images = <<>>
    /\ ocr_local_text = <<>>
    /\ recognised = 0
    /\ RIdle
    /\ EIdle

\* images[:5]
FirstImages(imgs) ==
    Slice(imgs, 1, IF Len(imgs) < OcrPageLimit THEN Len(imgs) ELSE OcrPageLimit)

\* line 194: convert_from_bytes(pdf_buffer, dpi=300) is given no page range
\* and renders every page of the document
OcrRender ==
    /\ opc = "render"
    /\ rendered_images' = pdf_buffer.images
    /\ ocr_calls' = ocr_calls + 1
    /\ opc' = "loop"
    /\ UNCHANGED <<ocr_local_text, recognised>>
    /\ UNCHANGED <<xpc, pdf_buffer, extracted_text, formatting_info, ocr_text,
                   primary_text, primary_raised, xresult, base_file>>
    /\ UNCHANGED <<api_key, fvars, gvars, avars, cvars, rvars, evars>>

\* line 194 raises: the exception leaves extract_text_with_ocr
OcrRenderRaises ==
    /\ opc = "render"
    /\ ocr_calls' = ocr_calls + 1
    /\ opc' = "raised"
    /\ UNCHANGED <<rendered_images, ocr_local_text, recognised>>
    /\ UNCHANGED <<xpc, pdf_buffer, extracted_text, formatting_info, ocr_text,
                   primary_text, primary_raised, xresult, base_file>>
    /\ UNCHANGED <<api_key, fvars, gvars, avars, cvars, rvars, evars>>

\* lines 197-199: one pass of the loop over images[:5]
OcrRecognise ==
    /\ opc = "loop"
    /\ recognised < Len(FirstImages(rendered_images))
    /\ ocr_local_text' = ocr_local_text \o rendered_images[recognised + 1] \o <<NL>>
    /\ recognised' = recognised + 1
    /\ UNCHANGED <<opc, rendered_images>>
    /\ UNCHANGED <<api_key, xvars, fvars, gvars, avars, cvars, rvars, evars>>

\* line 201: the loop is over and the normalized text is returned
OcrReturn ==
    /\ opc = "loop"
    /\ recognised = Len(FirstImages(rendered_images))
    /\ ocr_text' = normalize_bullet_points(ocr_local_text)
    /\ opc' = "done"
    /\ UNCHANGED <<rendered_images, ocr_local_text, recognised>>
    /\ UNCHANGED <<xpc, pdf_buffer, extracted_text, formatting_info,
                   primary_text, primary_raised, ocr_calls, xresult, base_file>>
    /\ UNCHANGED <<api_key, fvars, gvars, avars, cvars, rvars, evars>>

ONext ==
    \/ OcrRender
    \/ OcrRenderRaises
    \/ OcrRecognise
    \/ OcrReturn

SpecOcr == OInit /\ [][ONext]_vars

\* ------------------------------------------------------------------------
\* Properties of the OCR fallback (SpecOcr)
\* ------------------------------------------------------------------------

\* C25: for a document of any page count, at most 5 pages are rendered to
\* images, at most 5 pages are recognised, and the OCR text is the text of
\* the first pages in page order.
C25_OcrBoundedToFivePages ==
    /\ Len(rendered_images) <= OcrPageLimit
    /\ recognised <= OcrPageLimit
    /\ opc = "done" => ocr_text = extract_text_with_ocr(pdf_buffer)

\* ------------------------------------------------------------------------
\* Requests served side by side
\* ------------------------------------------------------------------------

\* number of requests in flight
NumRequests == 2

Requests == 1..NumRequests

\* the text a request extracts from its document or generates for its resume
RequestTexts == {<<"A", "n", "n">>, <<"B", "o", "b">>}

\* the file an operation saves its text to: resume/baseResume.txt (line 440)
\* for an extraction, resume/optimizedResume.txt (line 454) for a
\* reconstruction
SavedFile(kind) == IF kind = "extract" THEN "baseResume.txt" ELSE "optimizedResume.txt"

\* the content of a file
FileContent(f) == IF f = "baseResume.txt" THEN base_file ELSE optimized_file

RInit ==
    /\ api_key = TRUE
    /\ XIdle
    /\ FIdle
    /\ GIdle
    /\ AIdle
    /\ CIdle
    /\ OIdle
    /\ EIdle
    /\ rpc = [r \in Requests |-> "received"]
    /\ rkind \in [Requests -> {"extract", "generate"}]
    /\ rtext \in [Requests -> RequestTexts]
    /\ writers = [f \in {"baseResume.txt", "optimizedResume.txt"} |-> {}]

\* lines 145-166 and 711-820: the request has its text
ProduceText(r) ==
    /\ rpc[r] = "received"
    /\ rpc' = [rpc EXCEPT ![r] = "produced"]
    /\ UNCHANGED <<rkind, rtext, writers>>
    /\ UNCHANGED <<api_key, xvars, fvars, gvars, avars, cvars, ovars, evars>>

\* lines 171, 182 and 433-444: path.write_text on the one baseResume.txt
SaveBase(r) ==
    /\ rpc[r] = "produced"
    /\ rkind[r] = "extract"
    /\ base_file' = rtext[r]
    /\ writers' = [writers EXCEPT !["baseResume.txt"] = @ \cup {r}]
    /\ rpc' = [rpc EXCEPT ![r] = "done"]
    /\ UNCHANGED <<rkind, rtext>>
    /\ UNCHANGED <<xpc, pdf_buffer, extracted_text, formatting_info, ocr_text,
                   primary_text, primary_raised, ocr_calls, xresult>>
    /\ UNCHANGED <<api_key, fvars, gvars, avars, cvars, ovars, evars>>

\* lines 821 and 447-460: path.write_text on the one optimizedResume.txt
SaveOptimized(r) ==
    /\ rpc[r] = "produced"
    /\ rkind[r] = "generate"
    /\ optimized_file' = rtext[r]
    /\ writers' = [writers EXCEPT !["optimizedResume.txt"] = @ \cup {r}]
    /\ rpc' = [rpc EXCEPT ![r] = "done"]
    /\ UNCHANGED <<rkind, rtext>>
    /\ UNCHANGED <<gpc, original_resume_text, selected_keywords, keywords,
                   edit_response, optimized_text, gpath, gresult>>
    /\ UNCHANGED <<api_key, xvars, fvars, avars, cvars, ovars, evars>>

RNext ==
    \/ \E r \in Requests : ProduceText(r)
    \/ \E r \in Requests : SaveBase(r)
    \/ \E r \in Requests : SaveOptimized(r)

SpecRequests == RInit /\ [][RNext]_vars

\* ------------------------------------------------------------------------
\* Properties of requests served side by side (SpecRequests)
\* ------------------------------------------------------------------------

\* C26: no location written while serving one request is written while
\* serving another, and what a finished request has left behind is what it
\* leaves behind when it runs alone: its own text in its file.
C26_NoSharedMutableState ==
    /\ \A f \in DOMAIN writers : Cardinality(writers[f]) <= 1
    /\ \A r \in Requests :
          rpc[r] = "done" => FileContent(SavedFile(rkind[r])) = rtext[r]

\* ------------------------------------------------------------------------
\* The extract-text entry points
\* ------------------------------------------------------------------------

\* settings.max_file_size: 5 * 1024 * 1024 bytes
max_file_size == 5242880

\* settings.allowed_file_types
allowed_file_types == {<<".", "p", "d", "f">>, <<".", "d", "o", "c", "x">>}

\* resume.filename is None
NoFilename == <<"<None>">>

Filenames ==
    { NoFilename, <<>>, <<"c", "v", ".", "p", "d", "f">>, <<"C", "V", ".", "P", "D", "F">>, <<"c", "v", ".", "t", "x", "t">>, <<"c", "v", ".", "d", "o", "c", "x">>,
      <<"c", "v">>, <<"c", "v", ".", "p", "d", "f", ".", "e", "x", "e">> }

\* len(resume_content)
UploadSizes == {0, 1, max_file_size, max_file_size + 1}

EntryPoints == {"main.extract_text", "AnalyzeController.extract_text_from_resume"}

EInit ==
    /\ api_key = TRUE
    /\ XIdle
    /\ FIdle
    /\ GIdle
    /\ AIdle
    /\ CIdle
    /\ OIdle
    /\ RIdle
    /\ epc = "start"
    /\ entry \in EntryPoints
    /\ upload \in [filename : Filenames, size : UploadSizes]
    /\ rejection = [status |-> 0]
    /\ extract_invoked = FALSE
    /\ response = [status |-> 0]

\* str.endswith(suffix)
EndsWith(s, suffix) ==
    Len(s) >= Len(suffix) /\ Slice(s, Len(s) - Len(suffix) + 1, Len(s)) = suffix

\* "." + filename.lower().split('.')[-1]
FileExtension(filename) ==
    LET dots == {p \in 1..Len(filename) : filename[p] = "."}
        last == IF dots = {} THEN 0 ELSE CHOOSE p \in dots : \A q \in dots : q <= p
    IN  <<".">> \o lower(Slice(filename, last + 1, Len(filename)))

HTTPException(status_code, detail) == [status |-> status_code, detail |-> detail]

\* the handler has finished: rej is the exception the validation raised,
\* resp is what the caller gets
Respond(rej, invoked, resp) ==
    /\ rejection' = rej
    /\ extract_invoked' = invoked
    /\ response' = resp
    /\ epc' = "done"
    /\ UNCHANGED <<entry, upload>>
    /\ UNCHANGED <<api_key, xvars, fvars, gvars, avars, cvars, ovars, rvars>>

\* main.py line 117 on a missing filename: None has no endswith, and the
\* AttributeError is turned into a 500 by lines 189-195
MainFilenameRaises ==
    /\ epc = "start"
    /\ entry = "main.extract_text"
    /\ upload.filename = NoFilename
    /\ Respond([status |-> 0], FALSE,
               HTTPException(500, "Text extraction failed: {str(e)}"))

\* main.py lines 117-118: the 400 is raised inside the try block, whose
\* except Exception clause (line 189) catches it and raises a 500
MainRejectNotPdf ==
    /\ epc = "start"
    /\ entry = "main.extract_text"
    /\ upload.filename # NoFilename
    /\ ~EndsWith(upload.filename, <<".", "p", "d", "f">>)
    /\ Respond(HTTPException(400, "Only PDF files are supported"), FALSE,
               HTTPException(500, "Text extraction failed: {str(e)}"))

\* main.py lines 122-123, caught in the same way
MainRejectEmpty ==
    /\ epc = "start"
    /\ entry = "main.extract_text"
    /\ upload.filename # NoFilename
    /\ EndsWith(upload.filename, <<".", "p", "d", "f">>)
    /\ upload.size = 0
    /\ Respond(HTTPException(400, "Empty file"), FALSE,
               HTTPException(500, "Text extraction failed: {str(e)}"))

\* the upload passes the validation of main.py, which has no size limit
MainAccepts ==
    /\ epc = "start"
    /\ entry = "main.extract_text"
    /\ upload.filename # NoFilename
    /\ EndsWith(upload.filename, <<".", "p", "d", "f">>)
    /\ upload.size > 0

\* main.py lines 128-186: the extraction returns
MainExtractReturns ==
    /\ MainAccepts
    /\ Respond([status |-> 0], TRUE, [status |-> 200])

\* main.py lines 128 and 189-195: the extraction raises
MainExtractRaises ==
    /\ MainAccepts
    /\ Respond([status |-> 0], TRUE, HTTPException(500, "Text extraction failed: {str(e)}"))

\* AnalyzeController.py lines 40-44; the except HTTPException clause of
\* lines 90-92 re-raises the 400 as it is
ControllerRejectNoFilename ==
    /\ epc = "start"
    /\ entry = "AnalyzeController.extract_text_from_resume"
    /\ upload.filename \in {NoFilename, <<>>}
    /\ Respond(HTTPException(400, "Filename is required"), FALSE,
               HTTPException(400, "Filename is required"))

\* AnalyzeController.py lines 46-51
ControllerRejectExtension ==
    /\ epc = "start"
    /\ entry = "AnalyzeController.extract_text_from_resume"
    /\ upload.filename \notin {NoFilename, <<>>}
    /\ FileExtension(upload.filename) \notin allowed_file_types
    /\ Respond(HTTPException(400, "Only .pdf, .docx files are supported"), FALSE,
               HTTPException(400, "Only .pdf, .docx files are supported"))

\* the filename passes the checks of lines 40-51
ControllerNameAccepted ==
    /\ epc = "start"
    /\ entry = "AnalyzeController.extract_text_from_resume"
    /\ upload.filename \notin {NoFilename, <<>>}
    /\ FileExtension(upload.filename) \in allowed_file_types

\* AnalyzeController.py lines 57-61
ControllerRejectEmpty ==
    /\ ControllerNameAccepted
    /\ upload.size = 0
    /\ Respond(HTTPException(400, "Empty file provided"), FALSE,
               HTTPException(400, "Empty file provided"))

\* AnalyzeController.py lines 63-67
ControllerRejectOversized ==
    /\ ControllerNameAccepted
    /\ upload.size > max_file_size
    /\ Respond(HTTPException(400, "File size exceeds maximum allowed size of 5MB"), FALSE,
               HTTPException(400, "File size exceeds maximum allowed size of 5MB"))

\* AnalyzeController.py lines 72-88: the extraction returns
ControllerExtractReturns ==
    /\ ControllerNameAccepted
    /\ upload.size > 0
    /\ upload.size <= max_file_size
    /\ Respond([status |-> 0], TRUE, [status |-> 200])

\* AnalyzeController.py lines 72 and 93-98: the extraction raises
ControllerExtractRaises ==
    /\ ControllerNameAccepted
    /\ upload.size > 0
    /\ upload.size <= max_file_size
    /\ Respond([status |-> 0], TRUE, HTTPException(500, "Text extraction failed: {str(e)}"))

ENext ==
    \/ MainFilenameRaises
    \/ MainRejectNotPdf
    \/ MainRejectEmpty
    \/ MainExtractReturns
    \/ MainExtractRaises
    \/ ControllerRejectNoFilename
    \/ ControllerRejectExtension
    \/ ControllerRejectEmpty
    \/ ControllerRejectOversized
    \/ ControllerExtractReturns
    \/ ControllerExtractRaises

SpecEndpoints == EInit /\ [][ENext]_vars

\* ------------------------------------------------------------------------
\* Properties of the extract-text entry points (SpecEndpoints)
\* ------------------------------------------------------------------------

\* C30: in both entry points a rejection raised by the validation reaches
\* the caller as it was raised, a 400 with its reason, and the extraction is
\* not invoked.
C30_RejectionReachesCaller ==
    (epc = "done" /\ rejection.status = 400) =>
        /\ response = rejection
        /\ ~extract_invoked

====
